---------------------------- MODULE Spec2Model ----------------------------
(***************************************************************************)
(* A model of the concurrent state-and-resilience runtime of seestar-indi: *)
(* DeviceMonitor (seestar_monitor.py) with its poll loop and event queue,  *)
(* and CommandQueue / TransactionLog (seestar_recovery.py).                *)
(*                                                                         *)
(* Time is a discrete clock `now`.  DeviceClient (the injected api) is the *)
(* environment: each call nondeterministically succeeds, returns nothing   *)
(* or raises.  Python's None is the string "None".                         *)
(***************************************************************************)
EXTENDS Integers, Sequences, FiniteSets, TLC

VARIABLES
    now,            \* time.time()
    \* ---- DeviceMonitor ----
    state,          \* DeviceMonitor.state (DeviceState)
    event_queue,    \* DeviceMonitor.event_queue (queue.Queue, FIFO)
    running,        \* DeviceMonitor.running
    state_lock,     \* holder of DeviceMonitor.state_lock: "free" | "caller"
    mon,            \* poll thread: [pc, elapsed, failed (history: a read of the cycle failed)]
    evt,            \* event thread: [pc, event, index, current, stayed]
    event_callbacks,\* DeviceMonitor.event_callbacks: the handlers of each event type
    delivered,      \* history: the calls callback(event) made, as [handler, event]
    unsub,          \* history: per handler, the publishes made when its last
                    \*   remove_event_callback returned (-1 while none since it was added)
    subs,           \* history: add/remove_event_callback calls made
    reader,         \* a collaborator that calls get_state: [pc, value, taken]
    cache,          \* CacheManager: [response_cache, hits, misses] and the
                    \*   history of the reads made through send_request
    health,         \* HealthChecker: the statuses of the last check_health
                    \*   and the overall_status reported for them
    wheel,          \* SeestarFilterWheel: [slot, last]: the state of FILTER_SLOT
                    \*   and what the last ISNewNumber did
    watchdog,       \* Watchdog: [running, last_state_change] and the history
                    \* [sent, observed, answered, attempt]
    wthreads,       \* the "Watchdog" threads started, each by its position
    batcher,        \* RequestBatcher: [running, batch_queue, current_batch,
                    \*   last_batch_time, lock] and the history of the
                    \*   requests added, batches sent and callbacks called
    bthreads,       \* the "RequestBatcher" threads started: [pc, request]
    conn,           \* ConnectionManager: [connected, last_connection_attempt,
                    \*   connection_attempts] and the history [streak, reset,
                    \*   failed_probe]
    cthreads,       \* the "ConnectionManager" threads started: [pc, now]
    accepting,      \* the device, where it changes its mind: it accepts connect
    caller,         \* thread of a collaborator calling the monitor: [pc, pending]
    cycles,         \* history: poll cycles begun
    calls,          \* history: public calls made
    exposure,       \* history: [started, completes]: exposure_complete events of the current exposure
    \* ---- CommandQueue ----
    cmds,           \* the Command objects created so far, by identity
    heap,           \* CommandQueue.queue.queue: the heap list of (priority, command)
    processing,     \* CommandQueue.processing
    proc,           \* CommandProcessor thread: [pc, priority, command]
    txlog,          \* CommandQueue.current_transaction: (command, result) pairs
    device,         \* what the device holds: [ra, dec, filter_position]
    sends,          \* history: send_command calls made for each command
    rollback,       \* history: the inverse commands of the last rollback
    last            \* history: what the last step of the queue did

subVars == <<event_callbacks, delivered, unsub, subs>>

\* the collaborators and components around the monitor and the queue
batchVars == <<batcher, bthreads>>

connVars == <<conn, cthreads, accepting>>

sideVars == <<reader, cache, health, wheel>>

compVars == <<sideVars, watchdog, wthreads, batchVars, connVars>>

coreVars == <<state, event_queue, running, state_lock, mon, evt, caller, cycles, calls,
              exposure>>

monVars == <<coreVars, subVars, compVars>>

queueVars == <<cmds, heap, processing, proc, txlog, device, sends, rollback,
               last>>

vars == <<now, monVars, queueVars>>

\* ------------------------------------------------------------------ bounds
MaxTime == 1        \* the clock stops here
MaxEvents == 4      \* events waiting in event_queue
MaxCycles == 1      \* poll cycles begun, where a specification counts them
MaxCalls == 1       \* public calls made to the monitor
MaxSubs == 4        \* add/remove_event_callback calls made
MaxPosts == 3       \* events the producer threads publish
MaxStarts == 2      \* start() calls made on one component
MaxRequests == 2    \* requests added to the RequestBatcher
MaxConnTime == 47   \* the clock stops here where the ConnectionManager is studied
MaxStale == 1       \* seconds a ConnectionManager thread waits for its lock
MaxWatchTime == 140 \* the clock stops here where the Watchdog is studied
ObserveBy == 65     \* no state_change event is delivered to the Watchdog later
MaxLookups == 3     \* calls made on the CacheManager
CacheStep == 30     \* seconds between two moments at which the cache is used
MaxCacheTime == 120 \* the clock stops here where the cache is studied
MaxPublishes == 25  \* events a collaborator publishes directly
MaxCmds == 2        \* Command objects created
MaxHeapCmds == 7    \* Command objects created where only the heap is studied
MaxReports == 2     \* health reports made

\* --------------------------------------------------------- DeviceState
None == "None"

DeviceStateInit ==
    [connected |-> FALSE, error |-> None, ra |-> 0, dec |-> 0,
     slewing |-> FALSE, exposing |-> FALSE, exposure_time |-> 0,
     exposure_start |-> 0, gain |-> 1, filter_position |-> 0,
     filter_moving |-> FALSE, focus_temperature |-> 20,
     auto_focusing |-> FALSE]

Fields == DOMAIN DeviceStateInit

StateChange(key, old, new) ==
    [type |-> "state_change", property |-> key, old_value |-> old,
     new_value |-> new]

ExposureComplete == [type |-> "exposure_complete"]

\* One iteration of the loop of _update_state: the field is written and an
\* event is queued only when the value differs.
WriteFieldEager(sq, key, value) ==
    [state |-> [sq.state EXCEPT ![key] = value],
     queue |-> Append(sq.queue, StateChange(key, sq.state[key], value))]

WriteField(sq, key, value) ==
    IF key \in Fields /\ sq.state[key] # value
    THEN [state |-> [sq.state EXCEPT ![key] = value],
          queue |-> Append(sq.queue, StateChange(key, sq.state[key], value))]
    ELSE sq

\* _update_state(updates): updates is the dict as a sequence of <<key, value>>
\* in insertion order; the whole loop runs under state_lock.
RECURSIVE UpdateState(_, _)
UpdateState(sq, updates) ==
    IF updates = <<>> THEN sq
    ELSE UpdateState(WriteField(sq, Head(updates)[1], Head(updates)[2]),
                     Tail(updates))

SQ == [state |-> state, queue |-> <<>>]

\* The number of events an update would queue.
Room(updates) == Len(event_queue) + Len(UpdateState(SQ, updates).queue) <= MaxEvents

\* ------------------------------------------------------ DeviceClient values
Coords == {[ra |-> 10, dec |-> 45]}
Temps == {21}
Slewing == {TRUE}
Durations == {1}
Gains == {2}
FilterPositions == {1}

\* ------------------------------------------------ Command, TransactionLog
DefaultTimeout == 10

DefaultMaxRetries == 3

\* The params of the commands the collaborators submit, by method.
ParamsOf(method) ==
    CASE method = "goto_target" -> [ra |-> 10, dec |-> 45]
      [] method = "move_filter" -> [position |-> 1]
      [] OTHER -> [none |-> 0]

\* Command(method, params, timestamp, retries=0, max_retries, timeout, callback).
\* callback is "None", or names a function that returns or one that raises.
\* time.time() never gives two commands the same timestamp: `serial` is the
\* fraction that tells them apart, so two Command objects are never equal.
NewCommand(method, timestamp, serial, max_retries, callback) ==
    [method |-> method, params |-> ParamsOf(method), timestamp |-> timestamp,
     serial |-> serial, retries |-> 0, max_retries |-> max_retries,
     timeout |-> DefaultTimeout, callback |-> callback]

\* What api.send_command returns for a command it carried out.
DeviceResult == [status |-> "success"]

HasKeys(result, keys) == keys \subseteq DOMAIN result

\* TransactionLog._get_inverse_command: the inverse Command; method "None"
\* for a command without one, "KeyError" when the result lacks the previous
\* value the inverse is built from.
NoInverse(outcome) == [method |-> outcome, params |-> [none |-> 0]]

GetInverseCommand(command, result) ==
    CASE command.method = "goto_target" ->
            IF HasKeys(result, {"previous_ra", "previous_dec"})
            THEN [method |-> "goto_target",
                  params |-> [ra |-> result.previous_ra,
                              dec |-> result.previous_dec]]
            ELSE NoInverse("KeyError")
      [] command.method = "start_exposure" ->
            [method |-> "stop_exposure", params |-> [none |-> 0]]
      [] command.method = "move_filter" ->
            IF HasKeys(result, {"previous_position"})
            THEN [method |-> "move_filter",
                  params |-> [position |-> result.previous_position]]
            ELSE NoInverse("KeyError")
      [] OTHER -> NoInverse(None)

\* TransactionLog.add(command, result): one entry per call.
LogAddTwice(log, c, result) ==
    log \o <<[command |-> c, result |-> result], [command |-> c, result |-> result]>>

LogAdd(log, c, result) == Append(log, [command |-> c, result |-> result])

\* The order in which rollback visits the log: reversed(list(zip(...))).
RollbackOrderForward(n) == [i \in 1..n |-> i]

RollbackOrder(n) == [i \in 1..n |-> n + 1 - i]

\* TransactionLog.rollback over log entries order[k..]: `raising` are the
\* entries whose inverse command DeviceClient answers by raising.  Gives the
\* calls made (each with the index of its log entry) and whether all went well.
RECURSIVE RollbackFrom(_, _, _, _, _)
RollbackFrom(log, cs, order, k, raising) ==
    IF k > Len(order) THEN [ok |-> TRUE, sent |-> <<>>]
    ELSE LET i == order[k]
             inverse == GetInverseCommand(cs[log[i].command], log[i].result)
             rest == RollbackFrom(log, cs, order, k + 1, raising)
         IN  IF inverse.method = "KeyError" THEN [rest EXCEPT !.ok = FALSE]
             ELSE IF inverse.method = None THEN rest
             ELSE [ok |-> rest.ok /\ i \notin raising,
                   sent |-> <<[entry |-> i, method |-> inverse.method,
                               params |-> inverse.params]>> \o rest.sent]

Rollback(log, cs, raising) ==
    RollbackFrom(log, cs, RollbackOrder(Len(log)), 1, raising)

\* --------------------------------------- queue.PriorityQueue (heapq, CPython)
\* (priority, command) < (priority, command): tuples compare their first
\* differing items; Command defines no order, so a tie on the priority between
\* two different commands raises TypeError.
EntryLt(a, b) ==
    IF a[1] # b[1] THEN (IF a[1] < b[1] THEN "lt" ELSE "ge")
    ELSE IF a[2] = b[2] THEN "ge" ELSE "TypeError"

Swap(h, i, j) == [h EXCEPT ![i] = h[j], ![j] = h[i]]

\* heapq's siftdown: positions are 0-based as in the source, h is 1-based.
RECURSIVE SiftDown(_, _, _)
SiftDown(h, startpos, pos) ==
    IF pos <= startpos THEN [heap |-> h, err |-> FALSE]
    ELSE LET parentpos == (pos - 1) \div 2
             lt == EntryLt(h[pos + 1], h[parentpos + 1])
         IN  IF lt = "TypeError" THEN [heap |-> h, err |-> TRUE]
             ELSE IF lt = "ge" THEN [heap |-> h, err |-> FALSE]
             ELSE SiftDown(Swap(h, pos + 1, parentpos + 1), startpos, parentpos)

\* heapq's siftup: the smaller child moves up until a leaf is hit, then the
\* item is sifted down from there.
RECURSIVE SiftUp(_, _, _)
SiftUp(h, startpos, pos) ==
    LET endpos == Len(h)
        childpos == 2 * pos + 1
    IN  IF pos >= endpos \div 2 THEN SiftDown(h, startpos, pos)
        ELSE LET lt == IF childpos + 1 < endpos
                       THEN EntryLt(h[childpos + 1], h[childpos + 2])
                       ELSE "lt"
                 child == IF lt = "lt" THEN childpos ELSE childpos + 1
             IN  IF lt = "TypeError" THEN [heap |-> h, err |-> TRUE]
                 ELSE SiftUp(Swap(h, child + 1, pos + 1), startpos, child)

\* PriorityQueue._put: heappush.  The item is in the list even when the
\* comparison raised.
HeapPush(h, item) == SiftDown(Append(h, item), 0, Len(h))

\* PriorityQueue._get: heappop.  When the comparison raises, the item that
\* was at the front has left the list and is returned to nobody.
HeapPop(h) ==
    LET n == Len(h)
        lastelt == h[n]
        shorter == SubSeq(h, 1, n - 1)
    IN  IF n = 1 THEN [heap |-> <<>>, item |-> lastelt, err |-> FALSE]
        ELSE LET r == SiftUp([shorter EXCEPT ![1] = lastelt], 0, 0)
             IN  [heap |-> r.heap, item |-> h[1], err |-> r.err]

\* ------------------------------------------------------------ CommandQueue
NoStep ==
    [op |-> "none", command |-> 0, priority |-> 0, result |-> "none",
     logged |-> FALSE, called |-> FALSE, retried |-> 0, terminal |-> FALSE,
     rolled_back |-> "no", raised |-> FALSE]

DeviceInit == [ra |-> 5, dec |-> 30, filter_position |-> 0]

QueueInit ==
    /\ cmds = <<>>
    /\ heap = <<>>
    /\ processing = FALSE
    /\ proc = [pc |-> "off", priority |-> 0, command |-> 0]
    /\ txlog = <<>>
    /\ device = DeviceInit
    /\ sends = <<>>
    /\ rollback = <<>>
    /\ last = NoStep

\* ------------------------------------------------------- subscriptions
EventTypes == {"state_change", "exposure_complete", "test_event"}

\* The callbacks collaborators register.  h1 raises when it is called, h2
\* returns; _event_loop catches what a callback raises and goes on.
Handlers == {"h1", "h2"}

\* Watchdog._handle_state_change, the callback the Watchdog registers: it
\* sets last_state_change to the time of the call.
WatchdogHandler == "_handle_state_change"

NoEvent == [type |-> "none"]

\* The event thread between two events.
EvtIdle(pc) ==
    [pc |-> pc, event |-> NoEvent, index |-> 0, current |-> None, stayed |-> {}]

Range(seq) == {seq[i] : i \in DOMAIN seq}

\* ConnectionManager.__init__ sets last_connection_attempt to 0, the time 0
\* of time.time(); the clock of the model shows 0 at construction, Epoch
\* seconds later (any time above max_backoff behaves alike).
Epoch == 31

\* RequestBatcher._lock is held by the thread of this position, or by none
Unlocked == 0

\* self.cacheable_methods
CacheableMethods ==
    {"get_coordinates", "get_filter_position", "get_focus_position", "get_temperature"}

\* The methods the collaborators ask for, one on the allow-list and one not
Methods == {"get_coordinates", "start_exposure"}

\* TTLCache(maxsize=1000, ttl=60); maxsize is never reached with these methods
TTL == 60

\* _make_cache_key(method, params): the method and the canonical text of the
\* parameters, which are {} in every request made here
MakeCacheKey(method, params) == <<method, params>>

NoParams == "{}"

\* The keys response_cache can hold, and the mark of a key it does not hold
CacheKeys == {MakeCacheKey(m, NoParams) : m \in Methods}

Absent == [value |-> None, stored |-> -1]

\* ------------------------------------------------------------------ Init
\* The components as constructed, around the DeviceState and the waiting
\* events of `sq` and the history `x` of the exposure.
MonitorInitFrom(sq, x) ==
    /\ state = sq.state
    /\ event_queue = sq.queue
    /\ running = FALSE
    /\ state_lock = "free"
    /\ mon = [pc |-> "off", elapsed |-> 0, failed |-> "no"]
    /\ evt = EvtIdle("off")
    /\ event_callbacks = [t \in EventTypes |-> <<>>]
    /\ delivered = <<>>
    /\ unsub = [h \in Handlers |-> -1]
    /\ subs = 0
    /\ reader = [pc |-> "idle", value |-> None, taken |-> None]
    /\ cache = [response_cache |-> [k \in CacheKeys |-> Absent], hits |-> 0, misses |-> 0,
                ops |-> 0, last |-> [op |-> "none", method |-> None, found |-> FALSE],
                reads |-> <<>>]
    /\ health = [checks |-> None, overall_status |-> None, history |-> 0]
    /\ wheel = [slot |-> "IDLE", last |-> "none"]
    /\ watchdog = [running |-> FALSE, last_state_change |-> now, sent |-> <<>>,
                  observed |-> now, answered |-> FALSE, attempt |-> "none"]
    /\ wthreads = <<>>
    /\ batcher = [running |-> FALSE, batch_queue |-> <<>>, current_batch |-> <<>>,
                  last_batch_time |-> now, lock |-> Unlocked, added |-> 0,
                  sent |-> <<>>, called |-> <<>>,
                 ahead |-> 0, split |-> FALSE, pending |-> {}]
    /\ bthreads = <<>>
    /\ conn = [connected |-> FALSE, last_connection_attempt |-> now - Epoch,
               connection_attempts |-> 0, streak |-> 0, reset |-> FALSE,
               failed_probe |-> None]
    /\ cthreads = <<>>
    /\ accepting = FALSE
    /\ caller = [pc |-> "idle", pending |-> <<>>]
    /\ cycles = 0
    /\ calls = 0
    /\ exposure = x

MonitorInit ==
    MonitorInitFrom([state |-> DeviceStateInit, queue |-> <<>>],
                    [started |-> FALSE, completes |-> 0])

Init ==
    /\ now = 0
    /\ MonitorInit
    /\ QueueInit

\* ------------------------------------------------------------- time
Tick ==
    /\ now < MaxTime
    /\ now' = now + 1
    /\ UNCHANGED <<monVars, queueVars>>

\* ------------------------------------------------- DeviceMonitor.start/stop
MonitorStart ==
    /\ caller.pc = "idle"
    /\ ~running
    /\ mon.pc = "off" /\ evt.pc = "off"
    /\ running' = TRUE
    /\ mon' = [mon EXCEPT !.pc = "loop"]
    /\ evt' = [evt EXCEPT !.pc = "loop"]
    /\ UNCHANGED <<queueVars, subVars, compVars, now, state, event_queue, state_lock, caller, cycles, calls,
                   exposure>>

\* stop() clears the flag and then joins both threads.
MonitorStop ==
    /\ caller.pc = "idle"
    /\ running
    /\ running' = FALSE
    /\ caller' = [caller EXCEPT !.pc = "join"]
    /\ UNCHANGED <<queueVars, subVars, compVars, now, state, event_queue, state_lock, mon, evt, cycles, calls,
                   exposure>>

MonitorJoined ==
    /\ caller.pc = "join"
    /\ mon.pc = "off" /\ evt.pc = "off"
    /\ caller' = [caller EXCEPT !.pc = "idle"]
    /\ UNCHANGED <<queueVars, subVars, compVars, now, state, event_queue, running, state_lock, mon, evt,
                   cycles, calls, exposure>>

\* ------------------------------------------------------------ the poll loop
\* Applies _update_state(updates) atomically from the poll thread.
PollUpdate(updates, nextpc) ==
    /\ state_lock = "free"
    /\ Room(updates)
    /\ LET r == UpdateState(SQ, updates) IN
         /\ state' = r.state
         /\ event_queue' = event_queue \o r.queue
    /\ mon' = [mon EXCEPT !.pc = nextpc]
    /\ UNCHANGED <<queueVars, subVars, compVars, now, running, state_lock, evt, caller, cycles, calls,
                   exposure>>

PollSkip(nextpc) ==
    /\ mon' = [mon EXCEPT !.pc = nextpc]
    /\ UNCHANGED <<queueVars, subVars, compVars, now, state, event_queue, running, state_lock, evt, caller,
                   cycles, calls, exposure>>

\* A DeviceClient read of the cycle failed: it returned None ("none") or it
\* raised ("raise").
PollFail(nextpc, how) ==
    /\ mon' = [mon EXCEPT !.pc = nextpc, !.failed = how]
    /\ UNCHANGED <<queueVars, subVars, compVars, now, state, event_queue, running, state_lock, evt, caller,
                   cycles, calls, exposure>>

\* while self.running: (after the sleep that ended the previous cycle)
\* With `counted` the cycles are counted and capped by MaxCycles.
PollLoop(counted) ==
    /\ mon.pc = "loop"
    /\ (counted /\ running) => cycles < MaxCycles
    /\ mon' = [mon EXCEPT !.pc = IF running THEN "coords" ELSE "off",
                           !.failed = "no"]
    /\ cycles' = IF counted /\ running THEN cycles + 1 ELSE cycles
    /\ UNCHANGED <<queueVars, subVars, compVars, now, state, event_queue, running, state_lock, evt, caller,
                   calls, exposure>>

\* coords = self.api.get_coordinates(); if coords: self._update_state({...})
PollCoords ==
    /\ mon.pc = "coords"
    /\ \/ \E c \in Coords :
            PollUpdate(<<<<"ra", c.ra>>, <<"dec", c.dec>>,
                         <<"connected", TRUE>>, <<"error", None>>>>, "slew")
       \/ PollFail("slew", "none")
       \/ PollFail("error", "raise")

\* slewing = self.api.is_slewing(); self._update_state({"slewing": slewing})
PollSlewing ==
    /\ mon.pc = "slew"
    /\ \/ \E s \in Slewing : PollUpdate(<<<<"slewing", s>>>>, "temp")
       \/ PollFail("error", "raise")

\* temp = self.api.get_temperature(); if temp is not None: ...
PollTemperature ==
    /\ mon.pc = "temp"
    /\ \/ \E t \in Temps : PollUpdate(<<<<"focus_temperature", t>>>>, "exposing")
       \/ PollFail("exposing", "none")
       \/ PollFail("error", "raise")

\* if self.state.exposing:   (read without the lock)
PollReadExposing ==
    /\ mon.pc = "exposing"
    /\ PollSkip(IF state.exposing THEN "elapsed" ELSE "loop")

\* elapsed = time.time() - self.state.exposure_start   (read without the lock)
PollReadElapsed ==
    /\ mon.pc = "elapsed"
    /\ mon' = [mon EXCEPT !.pc = "compare",
                           !.elapsed = now - state.exposure_start]
    /\ UNCHANGED <<queueVars, subVars, compVars, now, state, event_queue, running, state_lock, evt, caller,
                   cycles, calls, exposure>>

\* if elapsed >= self.state.exposure_time:   (read without the lock)
PollCompare ==
    /\ mon.pc = "compare"
    /\ mon' = [mon EXCEPT !.pc = IF mon.elapsed >= state.exposure_time
                                   THEN "complete" ELSE "loop",
                           !.elapsed = 0]
    /\ UNCHANGED <<queueVars, subVars, compVars, now, state, event_queue, running, state_lock, evt, caller,
                   cycles, calls, exposure>>

\* self._update_state({"exposing": False})
PollExposureDone ==
    /\ mon.pc = "complete"
    /\ PollUpdate(<<<<"exposing", FALSE>>>>, "publish")

\* self.event_queue.put({"type": "exposure_complete"})
PollPublishComplete ==
    /\ mon.pc = "publish"
    /\ Len(event_queue) < MaxEvents
    /\ event_queue' = Append(event_queue, ExposureComplete)
    /\ exposure' = [exposure EXCEPT !.completes = @ + 1]
    /\ mon' = [mon EXCEPT !.pc = "loop"]
    /\ UNCHANGED <<queueVars, subVars, compVars, now, state, running, state_lock, evt, caller, cycles, calls>>

\* except Exception as e: self._update_state({"connected": False, "error": str(e)})
PollError ==
    /\ mon.pc = "error"
    /\ PollUpdate(<<<<"connected", FALSE>>, <<"error", "err">>>>, "loop")

Poll(counted) ==
    \/ PollLoop(counted)
    \/ PollCoords
    \/ PollSlewing
    \/ PollTemperature
    \/ PollReadExposing
    \/ PollReadElapsed
    \/ PollCompare
    \/ PollExposureDone
    \/ PollPublishComplete
    \/ PollError

\* ----------------------------------------------------------- the event loop
EventLoop ==
    /\ evt.pc = "loop"
    /\ evt' = [evt EXCEPT !.pc = IF running THEN "get" ELSE "off"]
    /\ UNCHANGED <<queueVars, subVars, compVars, now, state, event_queue, running, state_lock, mon,
                   caller, cycles, calls, exposure>>

\* event = self.event_queue.get(timeout=1.0); event_type = event["type"];
\* if event_type in self.event_callbacks: the for loop over its list begins.
\* `stayed` (history) are the handlers registered now; a handler leaves it
\* when it is removed during the dispatch.
EventGet ==
    /\ evt.pc = "get"
    /\ event_queue # <<>>
    /\ event_queue' = Tail(event_queue)
    /\ LET event == Head(event_queue)
           callbacks == event_callbacks[event.type]
       IN  evt' = IF callbacks = <<>> THEN EvtIdle("loop")
                  ELSE [pc |-> "next", event |-> event, index |-> 0,
                        current |-> None, stayed |-> Range(callbacks)]
    /\ UNCHANGED <<queueVars, subVars, compVars, now, state, running, state_lock, mon, caller,
                   cycles, calls, exposure>>

\* queue.Empty after the timeout, caught by the loop
EventGetTimeout ==
    /\ evt.pc = "get"
    /\ event_queue = <<>>
    /\ evt' = [evt EXCEPT !.pc = "loop"]
    /\ UNCHANGED <<queueVars, subVars, compVars, now, state, event_queue, running, state_lock, mon,
                   caller, cycles, calls, exposure>>

\* for callback in self.event_callbacks[event_type]: the list iterator takes
\* the item at its index from the list as it is now, or ends the loop.
EventNext ==
    /\ evt.pc = "next"
    /\ LET callbacks == event_callbacks[evt.event.type]
       IN  evt' = IF evt.index < Len(callbacks)
                  THEN [evt EXCEPT !.pc = "call", !.index = @ + 1,
                                   !.current = callbacks[evt.index + 1]]
                  ELSE EvtIdle("loop")
    /\ UNCHANGED <<queueVars, subVars, compVars, now, state, event_queue, running, state_lock, mon,
                   caller, cycles, calls, exposure>>

\* _handle_state_change(event): the timestamp becomes the time of the call.
\* `observed` and `answered` (history): when a state_change was last
\* observed, and whether a recovery has started since.
HandleStateChange(w) ==
    [w EXCEPT !.last_state_change = now, !.observed = now, !.answered = FALSE]

\* callback(event), in its try: what it raises is logged and the loop goes on
EventCall ==
    /\ evt.pc = "call"
    /\ delivered' = Append(delivered, [handler |-> evt.current, event |-> evt.event])
    /\ evt' = [evt EXCEPT !.pc = "next", !.current = None]
    /\ watchdog' = IF evt.current = WatchdogHandler
                   THEN HandleStateChange(watchdog) ELSE watchdog
    /\ UNCHANGED <<queueVars, batchVars, connVars, sideVars, wthreads, event_callbacks, unsub, subs, now, state,
                   event_queue, running, state_lock, mon, caller, cycles, calls, exposure>>

\* The event thread while no callback is registered: it takes the events and
\* has nothing to call.
Drain == EventLoop \/ EventGet \/ EventGetTimeout

Events == Drain \/ EventNext \/ EventCall

\* add_event_callback(event_type, callback)
Subscribe(event_type, callback) ==
    /\ subs < MaxSubs
    /\ subs' = subs + 1
    /\ event_callbacks' = [event_callbacks EXCEPT ![event_type] = Append(@, callback)]
    /\ unsub' = [unsub EXCEPT ![callback] = -1]
    /\ UNCHANGED <<queueVars, compVars, delivered, now, state, event_queue, running, state_lock,
                   mon, evt, caller, cycles, calls, exposure>>

\* list.remove(callback): the list without the first occurrence of callback
RemoveKeep(seq, callback) == seq

Remove(seq, callback) ==
    LET i == CHOOSE k \in DOMAIN seq :
                 seq[k] = callback /\ \A l \in 1..(k - 1) : seq[l] # callback
    IN  SubSeq(seq, 1, i - 1) \o SubSeq(seq, i + 1, Len(seq))

\* remove_event_callback(event_type, callback), for a registered callback
\* (list.remove raises ValueError for any other).  The call has returned
\* when the step is over.
Unsubscribe(event_type, callback) ==
    /\ subs < MaxSubs
    /\ callback \in Range(event_callbacks[event_type])
    /\ subs' = subs + 1
    /\ event_callbacks' = [event_callbacks EXCEPT ![event_type] = Remove(@, callback)]
    /\ unsub' = [unsub EXCEPT ![callback] = calls]
    /\ evt' = IF evt.event.type = event_type
              THEN [evt EXCEPT !.stayed = @ \ {callback}] ELSE evt
    /\ UNCHANGED <<queueVars, compVars, delivered, now, state, event_queue, running, state_lock,
                   mon, caller, cycles, calls, exposure>>

\* ------------------------------------------------------- the public calls
\* A public call whose api call succeeded enters _update_state: it takes
\* state_lock and then writes the fields of `updates` one by one.
CallerEnter(updates) ==
    /\ state_lock = "free"
    /\ state_lock' = "caller"
    /\ caller' = [pc |-> "update", pending |-> updates]

\* The api call returned a falsy value: the call returns False.
CallerFailed == UNCHANGED <<state_lock, caller>>

Call ==
    /\ caller.pc = "idle"
    /\ calls < MaxCalls
    /\ calls' = calls + 1
    /\ UNCHANGED <<queueVars, subVars, compVars, now, state, event_queue, running, mon, evt, cycles>>

StartExposure(duration, gain) ==
    /\ Call
    /\ \/ /\ CallerEnter(<<<<"exposing", TRUE>>, <<"exposure_time", duration>>,
                           <<"exposure_start", now>>, <<"gain", gain>>>>)
          /\ exposure' = [started |-> TRUE, completes |-> 0]
       \/ CallerFailed /\ UNCHANGED exposure

AbortExposure ==
    /\ Call
    /\ \/ CallerEnter(<<<<"exposing", FALSE>>>>)
       \/ CallerFailed
    /\ UNCHANGED exposure

StartAutofocus ==
    /\ Call
    /\ \/ CallerEnter(<<<<"auto_focusing", TRUE>>>>)
       \/ CallerFailed
    /\ UNCHANGED exposure

MoveFilter(position) ==
    /\ Call
    /\ \/ CallerEnter(<<<<"filter_position", position>>,
                        <<"filter_moving", TRUE>>>>)
       \/ CallerFailed
    /\ UNCHANGED exposure

\* One iteration of the loop of _update_state in the caller's thread; the lock
\* is released after the last one and the call returns True.
CallerWrite ==
    /\ caller.pc = "update"
    /\ LET kv == Head(caller.pending)
           r == WriteField(SQ, kv[1], kv[2])
           final == Len(caller.pending) = 1
       IN /\ Len(event_queue) + Len(r.queue) <= MaxEvents
          /\ state' = r.state
          /\ event_queue' = event_queue \o r.queue
          /\ caller' = [pc |-> IF final THEN "idle" ELSE "update",
                        pending |-> Tail(caller.pending)]
          /\ state_lock' = IF final THEN "free" ELSE "caller"
    /\ UNCHANGED <<queueVars, subVars, compVars, now, running, mon, evt, cycles, calls, exposure>>

\* get_state(): with self.state_lock: return self.state.  What it returns is
\* the DeviceState object of the monitor itself, not a new object.
StateRef == "self.state"

GetState == StateRef

\* The fields a holder of `value` reads: those of the monitor's object now if
\* value is that object, the value's own otherwise.
Deref(value) == IF value = StateRef THEN state ELSE value

\* A collaborator calls get_state() and keeps what it returned; `taken`
\* (history) are the field values at the moment of the call.
ReaderGetState ==
    /\ state_lock = "free"
    /\ reader' = [pc |-> "holds", value |-> GetState, taken |-> state]
    /\ UNCHANGED <<cache, health, wheel, queueVars, subVars, batchVars, connVars, watchdog, wthreads, now, state, event_queue, running, state_lock,
                   mon, evt, caller, cycles, calls, exposure>>

\* ----------------------------------------------------------------- Watchdog
StateTimeout == 60

\* time.sleep(5): the pause inside _attempt_recovery and the one that ends
\* each pass of _monitor_system
WatchdogSleep == 5

\* Watchdog.start(): sets the flag, starts a new "Watchdog" thread and
\* registers the state_change callback; nothing is tested first.
WatchdogStart ==
    /\ Len(wthreads) < MaxStarts
    /\ watchdog' = [watchdog EXCEPT !.running = TRUE]
    /\ wthreads' = Append(wthreads, [pc |-> "test", wake |-> now])
    /\ event_callbacks' = [event_callbacks EXCEPT
                              !["state_change"] = Append(@, WatchdogHandler)]
    /\ UNCHANGED <<queueVars, coreVars, batchVars, connVars, sideVars, delivered, unsub, subs, now>>

\* Watchdog.stop()
WatchdogStop ==
    /\ watchdog' = [watchdog EXCEPT !.running = FALSE]
    /\ UNCHANGED <<queueVars, coreVars, batchVars, connVars, subVars, sideVars, wthreads, now>>

\* The event thread delivers a state_change event to the Watchdog's handler.
WatchdogObserve ==
    /\ now <= ObserveBy
    /\ watchdog' = HandleStateChange(watchdog)
    /\ UNCHANGED <<queueVars, coreVars, batchVars, connVars, subVars, sideVars, wthreads, now>>

\* while self.running: of thread i
WatchdogTest(i) ==
    /\ wthreads[i].pc = "test"
    /\ wthreads' = [wthreads EXCEPT ![i].pc = IF watchdog.running THEN "body" ELSE "exited"]
    /\ UNCHANGED <<queueVars, coreVars, batchVars, connVars, subVars, sideVars, watchdog, now>>

RecoveryCommands == <<"stop_slew", "stop_exposure", "disconnect", "connect">>

\* _attempt_recovery() up to its time.sleep(5): stop_slew, stop_exposure and
\* disconnect in turn; the one at position `raised` raises (0: none does),
\* which ends the attempt in the except clause. `sent` (history) are the
\* commands of the latest attempt.
BeginRecovery(w, raised) ==
    [w EXCEPT !.sent = SubSeq(RecoveryCommands, 1, IF raised = 0 THEN 3 ELSE raised),
              !.answered = TRUE,
              !.attempt = IF raised = 0 THEN "sleeping" ELSE "raised"]

\* _attempt_recovery() after its time.sleep(5): connect, and then the
\* timestamp, which a raising connect leaves as it was.
EndRecovery(w, raised) ==
    [w EXCEPT !.sent = Append(@, RecoveryCommands[4]),
              !.last_state_change = IF raised THEN @ ELSE now,
              !.attempt = IF raised THEN "raised" ELSE "done"]

\* The freeze test, passed at any time
FrozenAlways(w) == TRUE

\* The freeze test of _monitor_system
Frozen(w) == now - w.last_state_change > StateTimeout

\* The freeze test of _monitor_system in thread i and what follows it: the
\* first part of the recovery, or _check_resources and the sleep that ends
\* the pass; what is raised is caught and the thread sleeps as well.
WatchdogBody(i) ==
    /\ wthreads[i].pc = "body"
    /\ IF Frozen(watchdog)
       THEN \E raised \in 0..3 :
               /\ watchdog' = BeginRecovery(watchdog, raised)
               /\ wthreads' = [wthreads EXCEPT
                                  ![i] = [pc |-> IF raised = 0 THEN "recovering" ELSE "sleep",
                                          wake |-> now + WatchdogSleep]]
       ELSE /\ wthreads' = [wthreads EXCEPT
                               ![i] = [pc |-> "sleep", wake |-> now + WatchdogSleep]]
            /\ UNCHANGED watchdog
    /\ UNCHANGED <<queueVars, coreVars, batchVars, connVars, subVars, sideVars, now>>

\* Thread i comes back from the sleep inside _attempt_recovery and finishes
\* the attempt, then _check_resources and the sleep that ends the pass.
WatchdogReconnect(i) ==
    /\ wthreads[i].pc = "recovering"
    /\ now >= wthreads[i].wake
    /\ \E raised \in BOOLEAN : watchdog' = EndRecovery(watchdog, raised)
    /\ wthreads' = [wthreads EXCEPT ![i] = [pc |-> "sleep", wake |-> now + WatchdogSleep]]
    /\ UNCHANGED <<queueVars, coreVars, batchVars, connVars, subVars, sideVars, now>>

\* Thread i comes back from the sleep that ends a pass; the history of the
\* attempt made in that pass, if any, ends here.
WatchdogWake(i) ==
    /\ wthreads[i].pc = "sleep"
    /\ now >= wthreads[i].wake
    /\ wthreads' = [wthreads EXCEPT ![i].pc = "test"]
    /\ watchdog' = [watchdog EXCEPT !.sent = <<>>, !.attempt = "none"]
    /\ UNCHANGED <<queueVars, coreVars, batchVars, connVars, subVars, sideVars, now>>

WatchdogThreads ==
    \E i \in DOMAIN wthreads :
        \/ WatchdogTest(i)
        \/ WatchdogBody(i)
        \/ WatchdogReconnect(i)
        \/ WatchdogWake(i)

\* The threads up to their first sleep
WatchdogEnter ==
    \E i \in DOMAIN wthreads : WatchdogTest(i) \/ WatchdogBody(i)

\* Whether thread i is in a sleep that has not run out, or has exited
Asleep(i) ==
    \/ wthreads[i].pc = "exited"
    \/ wthreads[i].pc \in {"sleep", "recovering"} /\ now < wthreads[i].wake

\* A second passes for the Watchdog; no thread oversleeps.
Elapse ==
    /\ now < MaxWatchTime
    /\ \A i \in DOMAIN wthreads : Asleep(i)
    /\ now' = now + 1
    /\ UNCHANGED <<monVars, queueVars>>

\* ----------------------------------------------------------- RequestBatcher
\* RequestBatcher(api, batch_size=2): the size threshold of the batcher
BatchSize == 2

\* batch_timeout, in the seconds of the clock: whether a tenth of a second
\* has gone by since `since` is open while the clock still shows that second.
BatchTimeoutElapsed(since) == IF now - since >= 1 THEN {TRUE} ELSE {TRUE, FALSE}

otherVars == <<queueVars, coreVars, subVars, connVars, sideVars, watchdog, wthreads, now>>

\* RequestBatcher.start(): sets the flag and starts a new thread
BatcherStart ==
    /\ Len(bthreads) < MaxStarts
    /\ batcher' = [batcher EXCEPT !.running = TRUE]
    /\ bthreads' = Append(bthreads, [pc |-> "test", request |-> 0])
    /\ UNCHANGED otherVars

\* The requests that wait to be sent: in the batch queue, in the hands of a
\* thread that took them from it, or in the current batch
Waiting ==
    Range(batcher.batch_queue) \cup Range(batcher.current_batch)
        \cup {bthreads[i].request : i \in {j \in DOMAIN bthreads : bthreads[j].pc = "append"}}

\* RequestBatcher.stop().  `pending` (history): the requests that were
\* waiting when a running batcher was stopped.
BatcherStop ==
    /\ batcher' = [batcher EXCEPT !.running = FALSE,
                                  !.pending = IF batcher.running THEN Waiting ELSE @]
    /\ UNCHANGED <<otherVars, bthreads>>

\* add_request(request); the requests are numbered as they come
AddRequest ==
    /\ batcher.added < MaxRequests
    /\ batcher' = [batcher EXCEPT !.added = @ + 1,
                                  !.batch_queue = Append(@, batcher.added + 1)]
    /\ UNCHANGED <<otherVars, bthreads>>

\* while self.running: of thread i
BatcherTest(i) ==
    /\ bthreads[i].pc = "test"
    /\ bthreads' = [bthreads EXCEPT ![i].pc = IF batcher.running THEN "get" ELSE "exited"]
    /\ UNCHANGED <<otherVars, batcher>>

\* request = self.batch_queue.get(timeout=self.batch_timeout).  `ahead`
\* (history): how many requests were waiting in the queue, this one included,
\* when the first request of the batch was taken.
BatcherGet(i) ==
    /\ bthreads[i].pc = "get"
    /\ batcher.batch_queue # <<>>
    /\ bthreads' = [bthreads EXCEPT ![i] = [pc |-> "append",
                                            request |-> Head(batcher.batch_queue)]]
    /\ batcher' = [batcher EXCEPT !.batch_queue = Tail(@),
                                  !.ahead = IF batcher.current_batch = <<>>
                                            THEN Len(batcher.batch_queue) ELSE @]
    /\ UNCHANGED otherVars

\* the get timed out: queue.Empty, to the except clause
BatcherGetEmpty(i) ==
    /\ bthreads[i].pc = "get"
    /\ batcher.batch_queue = <<>>
    /\ bthreads' = [bthreads EXCEPT ![i].pc = "empty"]
    /\ UNCHANGED <<otherVars, batcher>>

\* with self._lock: append the request and compute should_process; the lock
\* is released before _send_batch is called.
BatcherAppend(i) ==
    /\ bthreads[i].pc = "append"
    /\ batcher.lock = Unlocked
    /\ LET batch == Append(batcher.current_batch, bthreads[i].request) IN
         /\ batcher' = [batcher EXCEPT !.current_batch = batch]
         /\ \E elapsed \in BatchTimeoutElapsed(batcher.last_batch_time) :
               LET should_process == Len(batch) >= BatchSize \/ elapsed
               IN  bthreads' = [bthreads EXCEPT
                                  ![i] = [pc |-> IF should_process THEN "send" ELSE "test",
                                          request |-> 0]]
    /\ UNCHANGED otherVars

\* except queue.Empty: with self._lock: if self.current_batch:
\* self._send_batch().  The thread goes into _send_batch holding the lock.
BatcherEmpty(i) ==
    /\ bthreads[i].pc = "empty"
    /\ batcher.lock = Unlocked
    /\ IF batcher.current_batch # <<>>
       THEN /\ batcher' = [batcher EXCEPT !.lock = i]
            /\ bthreads' = [bthreads EXCEPT ![i].pc = "send"]
       ELSE /\ bthreads' = [bthreads EXCEPT ![i].pc = "test"]
            /\ UNCHANGED batcher
    /\ UNCHANGED otherVars

Responses == {"results", "none", "raise"}

\* _send_batch(): with self._lock, a threading.Lock, which its holder cannot
\* take a second time either: an empty batch returns, any other is taken and
\* current_batch and last_batch_time are reset; then, outside the lock, the
\* combined call is made and, when it has results, the callbacks are called
\* in the order of the batch.  A caller that held the lock releases it when
\* _send_batch has returned.  `split` (history): a batch was sent short of the
\* size threshold although enough requests to fill it were waiting.
BatcherSendBatch(i, response) ==
    /\ bthreads[i].pc = "send"
    /\ batcher.lock = Unlocked
    /\ LET batch == batcher.current_batch IN
         batcher' = IF batch = <<>> THEN batcher
                    ELSE [batcher EXCEPT
                            !.current_batch = <<>>,
                            !.last_batch_time = now,
                            !.sent = Append(@, batch),
                            !.split = @ \/ (Len(batch) < BatchSize /\ batcher.ahead >= BatchSize),
                            !.called = IF response = "results" THEN @ \o batch ELSE @]
    /\ bthreads' = [bthreads EXCEPT ![i].pc = "test"]
    /\ UNCHANGED otherVars

BatcherThreads ==
    \E i \in DOMAIN bthreads :
        \/ BatcherTest(i)
        \/ BatcherGet(i)
        \/ BatcherGetEmpty(i)
        \/ BatcherAppend(i)
        \/ BatcherEmpty(i)
        \/ \E response \in Responses : BatcherSendBatch(i, response)

\* ------------------------------------------------------------- CacheManager
\* cache_key in self.response_cache: an entry is there until its ttl is over;
\* at the very second at which it runs out either answer can be given.
InCache(c, key) ==
    IF c.response_cache[key] = Absent THEN {FALSE}
    ELSE IF now - c.response_cache[key].stored < TTL THEN {TRUE}
    ELSE IF now - c.response_cache[key].stored = TTL THEN {TRUE, FALSE}
    ELSE {FALSE}

\* get_cached_response with every lookup counted as a miss
GetCachedResponseAllMisses(c, method, params, found) ==
    [cache |-> [c EXCEPT !.misses = @ + 1], value |-> None]

\* get_cached_response(method, params), `found` being the answer of the
\* membership test: the CacheManager afterwards and the value returned
GetCachedResponse(c, method, params, found) ==
    IF method \notin CacheableMethods
    THEN [cache |-> c, value |-> None]
    ELSE IF found
    THEN [cache |-> [c EXCEPT !.hits = @ + 1],
          value |-> c.response_cache[MakeCacheKey(method, params)].value]
    ELSE [cache |-> [c EXCEPT !.misses = @ + 1], value |-> None]

\* cache_response(method, params, response)
CacheResponse(c, method, params, response) ==
    IF method \notin CacheableMethods THEN c
    ELSE [c EXCEPT !.response_cache[MakeCacheKey(method, params)] =
                        [value |-> response, stored |-> now]]

\* get_stats(): hit_rate is hits / total, kept as the pair of the two, and 0
\* when total is 0
GetStats(c) ==
    LET total == c.hits + c.misses IN
    [hits |-> c.hits, misses |-> c.misses,
     hit_rate |-> IF total > 0 THEN <<c.hits, total>> ELSE 0]

cacheRest == <<queueVars, coreVars, subVars, connVars, watchdog, wthreads, reader, health, wheel,
              now>>

\* A collaborator calls get_cached_response.  `ops` and `last` (history):
\* the calls made on the CacheManager and what the last one was.
CacheLookup ==
    /\ cache.ops < MaxLookups
    /\ \E method \in Methods :
         LET key == MakeCacheKey(method, NoParams) IN
         \E found \in InCache(cache, key) :
            cache' = [GetCachedResponse(cache, method, NoParams, found).cache EXCEPT
                         !.ops = @ + 1,
                         !.last = [op |-> "lookup", method |-> method, found |-> found]]
    /\ UNCHANGED <<cacheRest, batchVars>>

\* A collaborator calls cache_response with a response, which may be None.
CachePut ==
    /\ cache.ops < MaxLookups
    /\ \E method \in Methods, response \in {"response", None} :
         cache' = [CacheResponse(cache, method, NoParams, response) EXCEPT
                      !.ops = @ + 1,
                      !.last = [op |-> "put", method |-> method, found |-> FALSE]]
    /\ UNCHANGED <<cacheRest, batchVars>>

\* PerformanceOptimizer.send_request(method, params, callback): what the
\* cache holds is handed back, anything else becomes a BatchRequest for the
\* RequestBatcher.  `reads` (history): each call with its time, whether it
\* was counted as a hit and whether it went on to DeviceClient.
SendRequest ==
    /\ cache.ops < MaxLookups
    /\ batcher.added < MaxRequests
    /\ \E method \in Methods :
         LET key == MakeCacheKey(method, NoParams) IN
         \E found \in InCache(cache, key) :
            LET got == GetCachedResponse(cache, method, NoParams, found)
                cached == got.value # None
            IN  /\ cache' = [got.cache EXCEPT
                               !.ops = @ + 1,
                               !.last = [op |-> "send_request", method |-> method,
                                         found |-> found],
                               !.reads = Append(@, [method |-> method, time |-> now,
                                                    hit |-> got.cache.hits > cache.hits,
                                                    sent |-> ~cached])]
                /\ batcher' = IF cached THEN batcher
                              ELSE [batcher EXCEPT
                                      !.added = @ + 1,
                                      !.batch_queue = Append(@, batcher.added + 1)]
    /\ UNCHANGED <<cacheRest, bthreads>>

\* -------------------------------------------------------- ConnectionManager
MaxAttempts == 5
MaxBackoff == 30

RECURSIVE Pow(_, _)
Pow(b, n) == IF n = 0 THEN 1 ELSE b * Pow(b, n - 1)

\* elapsed < min(max_backoff, min_backoff * backoff_factor ** attempts), with
\* min_backoff = 1.0 and backoff_factor = 1.5 = 3/2, for a whole number of
\* seconds elapsed
BeforeBackoffNever(elapsed, attempts) == FALSE

BeforeBackoff(elapsed, attempts) ==
    IF Pow(3, attempts) > MaxBackoff * Pow(2, attempts)
    THEN elapsed < MaxBackoff
    ELSE elapsed * Pow(2, attempts) < Pow(3, attempts)

\* now - self.last_connection_attempt > self.max_backoff
CooledAlways(elapsed) == TRUE

Cooled(elapsed) == elapsed > MaxBackoff

restVars == <<queueVars, coreVars, subVars, batchVars, sideVars, watchdog, wthreads,
              accepting>>

\* The clock where the ConnectionManager is studied: a thread that has read
\* the time gets the lock before MaxStale further seconds have passed.
Pass ==
    /\ now < MaxConnTime
    /\ \A i \in DOMAIN cthreads :
          cthreads[i].pc = "decide" => now - cthreads[i].now < MaxStale
    /\ now' = now + 1
    /\ UNCHANGED <<monVars, queueVars>>

\* ConnectionManager.start(): starts a new thread; nothing is tested first
ConnStart ==
    /\ Len(cthreads) < MaxStarts
    /\ cthreads' = Append(cthreads, [pc |-> "loop", now |-> 0])
    /\ UNCHANGED <<restVars, conn, now>>

\* if not self.connected: self._attempt_connection() begins with
\* now = time.time(), read before the lock is taken.  (The failed probe has
\* been followed by a reconnect.)
ConnRead(i) ==
    /\ cthreads[i].pc = "loop"
    /\ ~conn.connected
    /\ cthreads' = [cthreads EXCEPT ![i] = [pc |-> "decide", now |-> now]]
    /\ conn' = [conn EXCEPT !.failed_probe = None]
    /\ UNCHANGED <<restVars, now>>

\* The block of _attempt_connection under self._lock, for the time t read
\* before it: the attempts test with the reset, the backoff test, and the
\* count and the time of the attempt.  Gives the ConnectionManager after the
\* block and whether the routine goes on to connect.
\* streak (history) counts the attempts made since the last success or the
\* last pause longer than max_backoff between two attempts; reset (history)
\* tells that an attempt was made after the count had been set back.
Decide(c, t) ==
    LET elapsed == t - c.last_connection_attempt
        exhausted == c.connection_attempts >= MaxAttempts
        attempts == IF exhausted /\ Cooled(elapsed) THEN 0
                    ELSE c.connection_attempts
        returns == \/ exhausted /\ ~Cooled(elapsed)
                   \/ BeforeBackoff(elapsed, attempts)
    IN  IF returns
        THEN [conn |-> [c EXCEPT !.connection_attempts = attempts],
              connects |-> FALSE]
        ELSE [conn |-> [c EXCEPT
                          !.connection_attempts = attempts + 1,
                          !.last_connection_attempt = t,
                          !.streak = IF elapsed > MaxBackoff THEN 1 ELSE @ + 1,
                          !.reset = @ \/ (exhausted /\ Cooled(elapsed))],
              connects |-> TRUE]

ConnDecide(i) ==
    /\ cthreads[i].pc = "decide"
    /\ LET d == Decide(conn, cthreads[i].now) IN
         /\ conn' = d.conn
         /\ cthreads' = [cthreads EXCEPT
                           ![i] = [pc |-> IF d.connects THEN "connect" ELSE "loop",
                                   now |-> 0]]
    /\ UNCHANGED <<restVars, now>>

\* how a send_command fails: it returns None or it raises
Refusals == {"none", "raise"}

\* with self._lock: if result: self.connected = True;
\* self.connection_attempts = 0.  A result of None or an exception changes
\* nothing.  (A new connection has no failed probe yet.)
ConnResultKeepsCount(c, answer) ==
    IF answer = "ok"
    THEN [c EXCEPT !.connected = TRUE, !.streak = 0, !.failed_probe = None]
    ELSE c

ConnResult(c, answer) ==
    IF answer = "ok"
    THEN [c EXCEPT !.connected = TRUE, !.connection_attempts = 0, !.streak = 0,
                   !.failed_probe = None]
    ELSE c

\* result = self.api.send_command("connect", {}) and the block under the
\* lock that follows it; the loop then sleeps and starts over.
ConnConnect(i, answer) ==
    /\ cthreads[i].pc = "connect"
    /\ conn' = ConnResult(conn, answer)
    /\ cthreads' = [cthreads EXCEPT ![i].pc = "loop"]
    /\ UNCHANGED <<restVars, now>>

\* A collaborator calls _attempt_connection() itself and then sleeps for
\* min_backoff, one second, as test_connection_failure does in its loop.
AttemptThenSleep(answer) ==
    /\ now < MaxConnTime
    /\ LET d == Decide(conn, now) IN
         conn' = IF d.connects THEN ConnResult(d.conn, answer) ELSE d.conn
    /\ calls' = calls + 1
    /\ now' = now + 1
    /\ UNCHANGED <<queueVars, subVars, batchVars, sideVars, watchdog, wthreads,
                   cthreads, accepting, state, event_queue, running, state_lock, mon, evt,
                   caller, cycles, exposure>>

\* else: try: self.api.send_command("test_connection", {}) except
\* Exception: with self._lock: self.connected = False.  The result of the
\* call is not looked at.  failed_probe (history) is how the last probe
\* that did not get a result ended, until a reconnect follows it.
ConnProbe(i, answer) ==
    /\ cthreads[i].pc = "loop"
    /\ conn.connected
    /\ conn' = [conn EXCEPT
                  !.connected = IF answer = "raise" THEN FALSE ELSE @,
                  !.failed_probe = IF answer \in Refusals THEN answer ELSE @]
    /\ UNCHANGED <<restVars, cthreads, now>>

\* what send_command gives: a result, None, or an exception
ConnAnswers == {"ok", "none", "raise"}

ConnThread(i, answers) ==
    /\ i \in DOMAIN cthreads
    /\ \/ ConnRead(i)
       \/ ConnDecide(i)
       \/ \E answer \in answers : ConnConnect(i, answer)
       \/ \E answer \in answers : ConnProbe(i, answer)

ConnThreads(answers) == \E i \in 1..MaxStarts : ConnThread(i, answers)

\* A device that refuses or raises until it starts to accept, and accepts
\* from then on.
DeviceAnswers == IF accepting THEN {"ok"} ELSE Refusals

\* The device starts to accept, while the clock can still show the end of a
\* cooldown that begins now.
DeviceAccepts ==
    /\ ~accepting
    /\ now + MaxBackoff < MaxConnTime
    /\ accepting' = TRUE
    /\ UNCHANGED <<queueVars, coreVars, subVars, batchVars, sideVars, watchdog, wthreads,
                   conn, cthreads, now>>

\* A producer thread publishes an event of its own, while fewer than `limit`
\* have been published: self.event_queue.put(event) on the Queue() of
\* __init__, which has no maximum size, so put appends.  The events are
\* numbered by the calls made.
MaxDepth == 20

Publish(limit, producer) ==
    /\ calls < limit
    /\ calls' = calls + 1
    /\ event_queue' = Append(event_queue, [type |-> "test_event",
                                           producer |-> producer, value |-> calls])
    /\ UNCHANGED <<queueVars, subVars, compVars, now, state, running, state_lock, mon, evt, caller,
                   cycles, exposure>>

MonitorNext ==
    \/ MonitorStart
    \/ Poll(TRUE)
    \/ Drain
    \/ \E d \in Durations, g \in Gains : StartExposure(d, g)
    \/ AbortExposure
    \/ StartAutofocus
    \/ \E p \in FilterPositions : MoveFilter(p)
    \/ CallerWrite
    \/ Tick

SpecMonitor == Init /\ [][MonitorNext]_vars

\* One exposure, never aborted, with the threads scheduled fairly: a thread
\* that can take a step eventually takes one, and time passes.  Whether a
\* collaborator calls start() or start_exposure() is up to the collaborator.
ExposureNext ==
    \/ MonitorStart
    \/ Poll(FALSE)
    \/ Drain
    \/ \E d \in Durations, g \in Gains : StartExposure(d, g)
    \/ CallerWrite
    \/ Tick

LiveExposure ==
    /\ Init
    /\ [][ExposureNext]_vars
    /\ WF_vars(Poll(FALSE))
    /\ WF_vars(Drain)
    /\ WF_vars(CallerWrite)
    /\ WF_vars(Tick)

\* The event queue alone: a producer publishing up to MaxPublishes events and
\* the dispatcher, once started, taking them at any speed.
OverflowNext ==
    \/ MonitorStart
    \/ Publish(MaxPublishes, "a")
    \/ Drain

SpecOverflow == Init /\ [][OverflowNext]_vars

\* A reader of the state beside the threads that update it.
ReaderNext ==
    \/ ReaderGetState
    \/ MonitorStart
    \/ Drain
    \/ \E d \in Durations, g \in Gains : StartExposure(d, g)
    \/ AbortExposure
    \/ StartAutofocus
    \/ \E p \in FilterPositions : MoveFilter(p)
    \/ CallerWrite
    \/ Tick

SpecReader == Init /\ [][ReaderNext]_vars

\* The Watchdog with the collaborator that starts and stops it, and the
\* monitor whose state_change events it listens to.
WatchdogNext ==
    \/ WatchdogStart
    \/ WatchdogStop
    \/ WatchdogEnter
    \/ MonitorStart
    \/ StartAutofocus
    \/ CallerWrite
    \/ Events
    \/ Tick

SpecWatchdog == Init /\ [][WatchdogNext]_vars

\* The Watchdog started once, as soon as it is constructed, with the event
\* thread that delivers state_change events to it and the collaborator that
\* stops it; its thread is scheduled fairly and time passes.
StaleNext ==
    \/ wthreads = <<>> /\ WatchdogStart
    \/ WatchdogStop
    \/ WatchdogObserve
    \/ WatchdogThreads
    \/ wthreads # <<>> /\ Elapse

LiveWatchdog ==
    /\ Init
    /\ [][StaleNext]_vars
    /\ WF_vars(WatchdogThreads)
    /\ WF_vars(wthreads # <<>> /\ Elapse)

\* Time passes between two uses of the cache.
CacheWait ==
    /\ now + CacheStep <= MaxCacheTime
    /\ now' = now + CacheStep
    /\ UNCHANGED <<monVars, queueVars>>

\* The CacheManager with the collaborators that look up and store responses,
\* and time passing.
CacheNext ==
    \/ CacheLookup
    \/ CachePut
    \/ CacheWait

SpecCache == Init /\ [][CacheNext]_vars

\* The request layer: reads made through send_request, a collaborator that
\* stores responses in the cache, and time passing.
RequestsNext ==
    \/ SendRequest
    \/ CachePut
    \/ CacheWait

SpecRequests == Init /\ [][RequestsNext]_vars

\* The RequestBatcher started once, with the collaborators that add requests
\* and stop it, its thread scheduled fairly and time passing.
BatcherNext ==
    \/ bthreads = <<>> /\ BatcherStart
    \/ BatcherStop
    \/ AddRequest
    \/ BatcherThreads
    \/ Tick

LiveBatcher ==
    /\ Init
    /\ [][BatcherNext]_vars
    /\ WF_vars(BatcherThreads)
    /\ WF_vars(Tick)

\* The ConnectionManager started up to MaxStarts times, so that its threads
\* enter the attempt routine concurrently, with a device that refuses,
\* raises or accepts.
ConnNext ==
    \/ ConnStart
    \/ ConnThreads(ConnAnswers)
    \/ Pass

SpecConn == Init /\ [][ConnNext]_vars

\* The attempt routine called once a second on a ConnectionManager that was
\* not started, with a device that refuses until it accepts.
AttemptsNext ==
    \/ DeviceAccepts
    \/ \E answer \in DeviceAnswers : AttemptThenSleep(answer)

SpecAttempts == Init /\ [][AttemptsNext]_vars

\* The ConnectionManager, started once, with a device that comes back: the
\* thread keeps running and time passes.
RecoveryNext ==
    \/ cthreads = <<>> /\ ConnStart
    \/ DeviceAccepts
    \/ ConnThreads(DeviceAnswers)
    \/ Pass

LiveConn ==
    /\ Init
    /\ [][RecoveryNext]_vars
    /\ WF_vars(ConnThreads(DeviceAnswers))
    /\ WF_vars(Pass)

\* The event system with its collaborators: two producer threads publish,
\* callbacks are added and removed from other threads while the event thread
\* dispatches.  A callback is added while it is not registered.
Producers == {"a", "b"}

Register ==
    \E h \in Handlers :
        /\ h \notin Range(event_callbacks["test_event"])
        /\ Subscribe("test_event", h)

Unregister == \E h \in Handlers : Unsubscribe("test_event", h)

Post == \E p \in Producers : Publish(MaxPosts, p)

EventsNext ==
    \/ MonitorStart
    \/ Register
    \/ Unregister
    \/ Post
    \/ Events

SpecEvents == Init /\ [][EventsNext]_vars

\* ------------------------------------------------------ CommandQueue actions
\* CommandQueue.start: a new CommandProcessor thread.  (Only called here while
\* no processor is alive: after construction, after stop, after a crash.)
QueueStart ==
    /\ proc.pc \in {"off", "dead"}
    /\ processing' = TRUE
    /\ proc' = [pc |-> "loop", priority |-> 0, command |-> 0]
    /\ last' = [NoStep EXCEPT !.op = "start"]
    /\ UNCHANGED <<cmds, heap, txlog, device, sends, rollback, now, monVars>>

\* CommandQueue.stop
QueueStop ==
    /\ processing
    /\ processing' = FALSE
    /\ last' = [NoStep EXCEPT !.op = "stop"]
    /\ UNCHANGED <<cmds, heap, proc, txlog, device, sends, rollback, now, monVars>>

\* A collaborator creates a Command `age` seconds old and calls
\* add_command(command, priority): self.queue.put((priority, command)).
AddCommand(method, priority, max_retries, callback, age) ==
    /\ LET c == Len(cmds) + 1
           r == HeapPush(heap, <<priority, c>>)
       IN  /\ cmds' = Append(cmds, NewCommand(method, now - age, c, max_retries,
                                               callback))
           /\ heap' = r.heap
           /\ last' = [NoStep EXCEPT !.op = "add", !.command = c,
                                     !.priority = priority, !.raised = r.err]
    /\ sends' = Append(sends, 0)
    /\ UNCHANGED <<processing, proc, txlog, device, rollback, now, monVars>>

\* while self.processing:
ProcLoop ==
    /\ proc.pc = "loop"
    /\ proc' = [proc EXCEPT !.pc = IF processing THEN "get" ELSE "off"]
    /\ UNCHANGED <<cmds, heap, processing, txlog, device, sends, rollback, last,
                   now, monVars>>

\* self.queue.get(timeout=1.0) raised queue.Empty: continue
ProcGetEmpty ==
    /\ proc.pc = "get"
    /\ heap = <<>>
    /\ proc' = [proc EXCEPT !.pc = "loop"]
    /\ UNCHANGED <<cmds, heap, processing, txlog, device, sends, rollback, last,
                   now, monVars>>

\* time.time() - command.timestamp > command.timeout
ExpiredNever(command) == FALSE

Expired(command) == now - command.timestamp > command.timeout

\* priority, command = self.queue.get(timeout=1.0), then the expiry check.  A
\* TypeError of the heap is caught by nothing and ends the thread.
ProcGet ==
    /\ proc.pc = "get"
    /\ heap # <<>>
    /\ LET r == HeapPop(heap)
           p == r.item[1]
           c == r.item[2]
           step == [NoStep EXCEPT !.command = c, !.priority = p]
       IN  /\ heap' = r.heap
           /\ IF r.err
              THEN /\ proc' = [pc |-> "dead", priority |-> 0, command |-> 0]
                   /\ last' = [step EXCEPT !.op = "get", !.raised = TRUE]
              ELSE IF Expired(cmds[c])
              THEN /\ proc' = [pc |-> "loop", priority |-> 0, command |-> 0]
                   /\ last' = [step EXCEPT !.op = "expired"]
              ELSE /\ proc' = [pc |-> "exec", priority |-> p, command |-> c]
                   /\ last' = [step EXCEPT !.op = "dequeue"]
    /\ UNCHANGED <<cmds, processing, txlog, device, sends, rollback, now, monVars>>

\* new_priority = max(0, priority - 1)
RetryPrioritySame(priority) == priority

RetryPriority(priority) == IF priority - 1 > 0 THEN priority - 1 ELSE 0

\* What a command that DeviceClient carried out does to the device.
Effect(dev, method, params) ==
    CASE method = "goto_target" -> [dev EXCEPT !.ra = params.ra, !.dec = params.dec]
      [] method = "move_filter" -> [dev EXCEPT !.filter_position = params.position]
      [] OTHER -> dev

RECURSIVE Effects(_, _, _)
Effects(dev, sent, raising) ==
    IF sent = <<>> THEN dev
    ELSE Effects(IF Head(sent).entry \in raising THEN dev
                 ELSE Effect(dev, Head(sent).method, Head(sent).params),
                 Tail(sent), raising)

\* The part of the queue's state that _handle_failure works on.
Working ==
    [cmds |-> cmds, heap |-> heap, txlog |-> txlog, device |-> device,
     rollback |-> <<>>, retried |-> 0, terminal |-> FALSE,
     rolled_back |-> "no", raised |-> FALSE]

\* CommandQueue._handle_failure(command, priority)
HandleFailure(w, c, priority, raising) ==
    IF w.cmds[c].retries < w.cmds[c].max_retries
    THEN LET r == HeapPush(w.heap, <<RetryPriority(priority), c>>)
         IN  [w EXCEPT !.cmds[c].retries = @ + 1, !.heap = r.heap,
                       !.retried = @ + 1, !.raised = r.err]
    ELSE IF w.txlog # <<>>
    THEN LET rb == Rollback(w.txlog, w.cmds, raising)
         IN  [w EXCEPT !.txlog = <<>>, !.rollback = rb.sent,
                       !.device = Effects(w.device, rb.sent, raising),
                       !.terminal = TRUE, !.raised = FALSE,
                       !.rolled_back = IF rb.ok THEN "ok" ELSE "failed"]
    ELSE [w EXCEPT !.terminal = TRUE, !.raised = FALSE]

\* CommandQueue._get_relevant_state(command)
GetRelevantState(command) ==
    CASE command.method = "goto_target" ->
            [previous_ra |-> device.ra, previous_dec |-> device.dec]
      [] command.method = "move_filter" ->
            [previous_position |-> device.filter_position]
      [] OTHER -> [none |-> 0]

ReadsDevice(command) == command.method \in {"goto_target", "move_filter"}

\* The try block of _process_commands for the command taken from the queue.
\*   read:    "ok" | "raise"  what the api reads of _get_relevant_state do
\*   answer:  "ok" | "none" | "raise"  what api.send_command does
\*   raising: the log entries whose inverse command raises, if it comes to a
\*            rollback
ProcExecute(read, answer, raising) ==
    /\ proc.pc = "exec"
    /\ read = "raise" => ReadsDevice(cmds[proc.command]) /\ answer = "none"
    /\ LET c == proc.command
           p == proc.priority
           command == cmds[c]
           sent == read = "ok"
           success == sent /\ answer = "ok"
           result == [status |-> "success",
                      previous_state |-> GetRelevantState(command)]
           logged == [Working EXCEPT
                        !.txlog = LogAdd(@, c, result),
                        !.device = Effect(@, command.method, command.params)]
           \* the first _handle_failure, where there is one
           first == IF success
                    THEN IF command.callback = "raises"
                         THEN HandleFailure(logged, c, p, raising)
                         ELSE logged
                    ELSE HandleFailure(Working, c, p, raising)
           \* _handle_failure raised inside the try (the else branch): the
           \* except clause calls it again
           again == first.raised /\ sent /\ answer = "none"
           w == IF again
                THEN HandleFailure([first EXCEPT !.raised = FALSE], c, p, raising)
                ELSE first
       IN  /\ cmds' = w.cmds
           /\ heap' = w.heap
           /\ txlog' = w.txlog
           /\ device' = w.device
           /\ rollback' = w.rollback
           /\ sends' = [sends EXCEPT ![c] = @ + (IF sent THEN 1 ELSE 0)]
           /\ proc' = [pc |-> IF w.raised THEN "dead" ELSE "loop",
                       priority |-> 0, command |-> 0]
           /\ last' = [op |-> "exec", command |-> c, priority |-> p,
                       result |-> IF sent THEN answer ELSE "nosend",
                       logged |-> success,
                       called |-> success /\ command.callback # None,
                       retried |-> w.retried, terminal |-> w.terminal,
                       rolled_back |-> w.rolled_back, raised |-> w.raised]
    /\ UNCHANGED <<processing, now, monVars>>

Answers == {"ok", "none", "raise"}

\* The CommandProcessor thread, with the answers DeviceClient may give.
Processor(answers, raisingSets) ==
    \/ ProcLoop
    \/ ProcGetEmpty
    \/ ProcGet
    \/ \E read \in {"ok", "raise"}, answer \in answers, raising \in raisingSets :
          ProcExecute(read, answer, raising)

\* ----------------------------------------- TransactionLog used on its own
LogMethods == {"goto_target", "start_exposure", "move_filter", "get_status"}

\* The results a collaborator logs with a command of the method: they carry
\* the previous values the inverse is built from, as in test_rollback_goto.
LogResults(method) ==
    CASE method = "goto_target" ->
            {[status |-> "success", previous_ra |-> ra, previous_dec |-> 30] : ra \in {5, 7}}
      [] method = "move_filter" ->
            {[status |-> "success", previous_position |-> p] : p \in {0, 2}}
      [] OTHER -> {DeviceResult}

\* A collaborator creates a Command and calls add(command, result).
LogEntry ==
    /\ Len(cmds) < MaxCmds
    /\ \E method \in LogMethods :
         \E result \in LogResults(method) :
            LET c == Len(cmds) + 1 IN
            /\ cmds' = Append(cmds, NewCommand(method, now, c, DefaultMaxRetries, None))
            /\ txlog' = LogAdd(txlog, c, result)
            /\ last' = [NoStep EXCEPT !.op = "log", !.command = c]
    /\ sends' = Append(sends, 0)
    /\ UNCHANGED <<heap, processing, proc, device, rollback, now, monVars>>

\* A collaborator calls rollback(api); DeviceClient raises for the inverse
\* commands of the entries in `raising` and answers None, its answer to a
\* request that failed, for those in `refused`.  The log is left as it is.
\* last.raised (history): an inverse command failed, in one way or the other.
LogRollback ==
    /\ txlog # <<>>
    /\ \E raising \in SUBSET DOMAIN txlog :
         \E refused \in SUBSET (DOMAIN txlog \ raising) :
            LET rb == Rollback(txlog, cmds, raising) IN
            /\ rollback' = rb.sent
            /\ device' = Effects(device, rb.sent, raising \cup refused)
            /\ last' = [NoStep EXCEPT
                           !.op = "rollback",
                           !.rolled_back = IF rb.ok THEN "ok" ELSE "failed",
                           !.raised = \E k \in DOMAIN rb.sent :
                                          rb.sent[k].entry \in raising \cup refused]
    /\ UNCHANGED <<cmds, heap, processing, proc, txlog, sends, now, monVars>>

\* A collaborator calls clear().
LogClear ==
    /\ txlog # <<>>
    /\ txlog' = <<>>
    /\ last' = [NoStep EXCEPT !.op = "clear"]
    /\ UNCHANGED <<cmds, heap, processing, proc, device, sends, rollback, now, monVars>>

LogNext ==
    \/ LogEntry
    \/ LogRollback
    \/ LogClear

SpecLog == Init /\ [][LogNext]_vars

\* ------------------------------------------------- CommandQueue: the systems
\* A collaborator submits one of the commands described, while fewer than
\* `limit` commands have been created.
Submit(limit, methods, priorities, budgets, callbacks, ages) ==
    /\ Len(cmds) < limit
    /\ \E method \in methods, priority \in priorities, max_retries \in budgets,
          callback \in callbacks, age \in ages :
          AddCommand(method, priority, max_retries, callback, age)

\* Retries: commands with a budget of 2 retries at the priorities 0..2.
RetryNext ==
    \/ QueueStart
    \/ Submit(MaxCmds, {"get_status"}, 0..2, {2}, {None}, {0})
    \/ Processor(Answers, {{}})

SpecRetry == Init /\ [][RetryNext]_vars

\* Expiry: commands 0 or 10 seconds old when they are submitted, and time
\* passing while they wait.
ExpiryNext ==
    \/ QueueStart
    \/ Submit(MaxCmds, {"get_status"}, {0, 1}, {1}, {None}, {0, DefaultTimeout})
    \/ Processor(Answers, {{}})
    \/ Tick

SpecExpiry == Init /\ [][ExpiryNext]_vars

\* Callbacks: commands with no callback, one that returns, one that raises.
CallbackNext ==
    \/ QueueStart
    \/ Submit(MaxCmds, {"get_status"}, {1, 2}, {2}, {None, "returns", "raises"}, {0})
    \/ Processor(Answers, {{}})

SpecCallback == Init /\ [][CallbackNext]_vars

\* Rollback: commands with an inverse and without a retry budget (one more
\* than elsewhere: two to be logged and one to fail); any of the inverse
\* commands may raise.
RollbackNext ==
    \/ QueueStart
    \/ Submit(MaxCmds + 1, {"start_exposure", "move_filter"}, 0..2, {0}, {None}, {0})
    \/ Processor(Answers, SUBSET (1..2))

SpecRollback == Init /\ [][RollbackNext]_vars

\* The goto scenario: goto_target(10, 45) commands with the default budget
\* while the mount is at (5, 30).
GotoNext ==
    \/ QueueStart
    \/ Submit(2, {"goto_target"}, {1, 2}, {DefaultMaxRetries}, {None}, {0})
    \/ Processor(Answers, {{}})

SpecGoto == Init /\ [][GotoNext]_vars

\* The heap: up to MaxHeapCmds commands without a retry budget at the
\* priorities 0..2, each answered by None; a processor that died of a
\* TypeError is started again.
HeapNext ==
    \/ QueueStart
    \/ Submit(MaxHeapCmds, {"get_status"}, 0..2, {0}, {None}, {0})
    \/ Processor({"none"}, {{}})

SpecHeap == Init /\ [][HeapNext]_vars

\* ------------------------------------------------------------------ claims
\* The events a step put on event_queue (the event thread only takes).
Added ==
    IF evt' # evt THEN <<>>
    ELSE SubSeq(event_queue', Len(event_queue) + 1, Len(event_queue'))

ChangeEvents(f) ==
    {i \in 1..Len(Added) :
        Added[i].type = "state_change" /\ Added[i].property = f}

\* C1: in every step, each DeviceState field whose value changes gets exactly
\* one state_change event carrying (property, old_value, new_value), and a
\* field whose value stays the same gets none.
C1_DiffAndPublish ==
    [][\A f \in Fields :
         IF state'[f] # state[f]
         THEN /\ Cardinality(ChangeEvents(f)) = 1
              /\ \A i \in ChangeEvents(f) :
                    /\ Added[i].old_value = state[f]
                    /\ Added[i].new_value = state'[f]
         ELSE ChangeEvents(f) = {}]_vars

\* A poll cycle changed `connected` and wrote `error` with the value it had:
\* the queue holds the event of the first and none of the second.
C1_Witness ==
    /\ state.connected /\ state.error = None
    /\ \E i \in 1..Len(event_queue) :
          event_queue[i] = StateChange("connected", FALSE, TRUE)
    /\ \A i \in 1..Len(event_queue) :
          event_queue[i].type = "state_change" => event_queue[i].property # "error"

\* C11: after a poll cycle in which a DeviceClient read failed, by raising or
\* by returning no result, the state shows connected = false and an error.
C11_FailureMarked ==
    (mon.pc = "loop" /\ mon.failed # "no") =>
        (~state.connected /\ state.error # None)

\* C13: the event queue never holds more than MaxDepth events.
C13_QueueBounded ==
    Len(event_queue) <= MaxDepth

Delivered(h, event) ==
    \E i \in 1..Len(delivered) : delivered[i] = [handler |-> h, event |-> event]

\* C14: a handler gets each published event at most once, and the events of
\* one producer in the order the producer published them: of two calls to
\* the same handler with events of the same producer, the later call has the
\* event published later.
C14_OncePerProducerOrder ==
    \A i, j \in 1..Len(delivered) :
        (/\ i < j
         /\ delivered[i].handler = delivered[j].handler
         /\ delivered[i].event.producer = delivered[j].event.producer)
            => delivered[i].event.value < delivered[j].event.value

\* C15: when the dispatch of an event is over, every handler that was
\* registered for its type when the event was taken, and was not removed
\* since, has been called with it.
C15_NoHandlerSkipped ==
    [][(evt.pc = "next" /\ evt'.pc = "loop") =>
          \A h \in evt.stayed : Delivered(h, evt.event)]_vars

Live(threads) == {i \in DOMAIN threads : threads[i].pc # "exited"}

Registrations(event_type, h) ==
    Cardinality({i \in DOMAIN event_callbacks[event_type] :
                    event_callbacks[event_type][i] = h})

\* C18: whatever start() and stop() calls were made, the Watchdog has at most
\* one live background thread and its handler is registered at most once.
C18_OneTaskOneHandler ==
    /\ Cardinality(Live(wthreads)) <= 1
    /\ Registrations("state_change", WatchdogHandler) <= 1

\* C19: once stop() has cleared the flag of a started RequestBatcher, its
\* background thread eventually leaves its loop.
C19_StoppedTaskExits ==
    (bthreads # <<>> /\ ~batcher.running) ~>
        (\A i \in DOMAIN bthreads : bthreads[i].pc = "exited")

\* C20: connection_attempts never exceeds max_attempts, and no more than
\* max_attempts attempts are made in a row without a success or a pause
\* longer than max_backoff between two of them.
C20_AttemptsBounded ==
    /\ conn.connection_attempts <= MaxAttempts
    /\ conn.streak <= MaxAttempts

\* Two threads are in the routine, max_attempts attempts failed in a row and
\* the sixth was made after the pause.
C20_Witness ==
    /\ Len(cthreads) = 2
    /\ conn.reset
    /\ conn.streak = 1
    /\ conn.connection_attempts = 1
    /\ ~conn.connected

\* C21: a thread leaves the locked block of the attempt routine towards the
\* connect call only if the time since the previous attempt is at least
\* min_backoff * backoff_factor ^ attempts (which stays below max_backoff
\* for every count up to max_attempts), attempts being the count before the
\* block; a thread that returns instead leaves the ConnectionManager as it was.
C21_ConnectAfterBackoff ==
    [][\A i \in DOMAIN cthreads :
          (cthreads[i].pc = "decide" /\ cthreads'[i].pc # "decide") =>
              IF cthreads'[i].pc = "connect"
              THEN (now - conn.last_connection_attempt)
                       * Pow(2, conn.connection_attempts)
                     >= Pow(3, conn.connection_attempts)
              ELSE conn' = conn]_vars

\* A thread is about to make the connect call that follows three failed
\* attempts.
C21_Witness ==
    /\ \E i \in DOMAIN cthreads : cthreads[i].pc = "connect"
    /\ conn.connection_attempts = 4
    /\ conn.streak = 4
    /\ ~conn.connected

\* C22: once the device accepts connect, a started ConnectionManager
\* eventually shows connected = true; and whenever connected becomes true,
\* connection_attempts is 0.
C22_Recovers ==
    /\ (accepting /\ cthreads # <<>>) ~> conn.connected
    /\ [][(~conn.connected /\ conn'.connected) =>
             conn'.connection_attempts = 0]_vars

\* The device was refused max_attempts times and more, then accepted, and
\* the ConnectionManager is connected with its count at 0.
C22_Witness ==
    /\ conn.connected
    /\ conn.reset
    /\ accepting
    /\ conn.connection_attempts = 0

\* C23: while the device refuses, after k calls of the attempt routine made
\* one second apart on a fresh ConnectionManager, connection_attempts is k
\* and connected is false.
C23_EveryCallCounts ==
    ~accepting => (conn.connection_attempts = calls /\ ~conn.connected)

\* C24: after a liveness probe of the connection failed, by raising or by
\* returning no result, connected is false.
C24_FailedProbeDisconnects ==
    conn.failed_probe \in Refusals => ~conn.connected

\* C17: what a reader got from get_state keeps the field values it had at
\* the moment of the call.
C17_ReaderKeepsValues ==
    reader.pc = "holds" => Deref(reader.value) = reader.taken

ExposureElapsed ==
    /\ caller.pc = "idle"
    /\ state.exposing
    /\ now - state.exposure_start >= state.exposure_time

\* C10: once the duration of a started exposure has elapsed, the state comes
\* to show exposing = false and exactly one exposure_complete event has been
\* published for the exposure.
C10_ExposureCompletes ==
    ExposureElapsed ~> (~state.exposing /\ exposure.completes = 1)


\* --------------------------------------------------- claims: CommandQueue
\* The inverse commands a rollback of `log` has to send: the entries whose
\* inverse command can be built.
Invertible(log) ==
    {k \in DOMAIN log :
        GetInverseCommand(cmds[log[k].command], log[k].result).method
            \notin {None, "KeyError"}}

\* C2: when a command fails with its retry budget exhausted, the inverse
\* commands are sent in reverse order of logging (each invertible entry of the
\* log once, later entries first), and the transaction log is empty
\* afterwards, whether the rollback succeeded or failed.
C2_RollbackReverse ==
    [][(proc.pc = "exec" /\ last'.terminal) =>
          /\ txlog' = <<>>
          /\ \A i, j \in DOMAIN rollback' :
                i < j => rollback'[i].entry > rollback'[j].entry
          /\ Invertible(txlog) \subseteq {rollback'[i].entry : i \in DOMAIN rollback'}
          /\ last'.rolled_back \in {"no", "ok", "failed"}]_vars

C2_Witness ==
    /\ last.op = "exec"
    /\ last.terminal
    /\ last.rolled_back = "failed"
    /\ Len(rollback) = 2
    /\ txlog = <<>>

\* C3: a command is never retried after a success, and it is sent to
\* DeviceClient at most max_retries + 1 times.
C3_RetryBudget ==
    /\ \A c \in DOMAIN cmds : sends[c] <= cmds[c].max_retries + 1
    /\ (last.op = "exec" /\ last.result = "ok") =>
          (last.retried = 0 /\ ~last.terminal)

\* C4: a goto_target(10, 45) submitted while the mount is at (5, 30) that
\* ends as a terminal failure has been retried 3 times, and the rollback has
\* sent goto_target(5, 30) to DeviceClient.
C4_GotoScenario ==
    (last.op = "exec" /\ last.terminal
        /\ cmds[last.command].method = "goto_target") =>
        /\ cmds[last.command].retries = DefaultMaxRetries
        /\ \E i \in DOMAIN rollback :
              /\ rollback[i].method = "goto_target"
              /\ rollback[i].params = [ra |-> DeviceInit.ra, dec |-> DeviceInit.dec]

\* C5: a command that fails terminally is reported to its submitter: its
\* callback, if it has one, is invoked with a negative result, a failure event
\* is published, and no exception leaves the processor.
C5_TerminalFailureReported ==
    (last.op = "exec" /\ last.terminal) =>
        /\ ~last.raised
        /\ cmds[last.command].callback # None =>
              (last.called /\ last.result # "ok")
        /\ \E i \in DOMAIN event_queue : event_queue[i].type = "command_failed"

\* C6: whenever the processor takes a command from the queue, its priority
\* value is minimal among the commands pending at that moment.
C6_DequeuesMinimal ==
    [][(proc.pc = "get" /\ proc'.pc \in {"exec", "loop"} /\ heap # <<>>) =>
          \A i \in DOMAIN heap : last'.priority <= heap[i][1]]_vars

\* C7: a command dequeued more than its timeout after its timestamp is
\* dropped, and nothing is sent to DeviceClient but a command that was
\* dequeued unexpired; first attempts and retries alike.
C7_ExpiredDropped ==
    [][/\ (proc.pc = "get" /\ proc'.pc # "get" /\ heap # <<>>) =>
            LET r == HeapPop(heap)
                c == r.item[2]
            IN  (~r.err /\ now - cmds[c].timestamp > cmds[c].timeout) =>
                    (proc'.pc = "loop" /\ last'.op = "expired" /\ last'.command = c)
       /\ (proc.pc # "exec" /\ proc'.pc = "exec") =>
            now - cmds[proc'.command].timestamp <= cmds[proc'.command].timeout
       /\ \A c \in DOMAIN sends :
            sends'[c] # sends[c] => (proc.pc = "exec" /\ proc.command = c)]_vars

C7_Witness ==
    /\ last.op = "expired"
    /\ cmds[last.command].retries >= 1
    /\ sends[last.command] = 1

\* C8: a successful result appends exactly one (command, result) entry to the
\* transaction log and the callback, if there is one, is then invoked (the
\* log is emptied again only by the rollback of a terminal failure in the same
\* step); a failed execution adds no entry and invokes no callback.
C8_LoggedOnce ==
    [][(proc.pc = "exec" /\ proc'.pc # "exec") =>
          IF last'.result = "ok"
          THEN /\ last'.called <=> cmds[proc.command].callback # None
               /\ \/ last'.terminal /\ txlog' = <<>>
                  \/ /\ Len(txlog') = Len(txlog) + 1
                     /\ SubSeq(txlog', 1, Len(txlog)) = txlog
                     /\ txlog'[Len(txlog')].command = proc.command
                     /\ txlog'[Len(txlog')].result.status = "success"
          ELSE /\ ~last'.called
               /\ txlog' = txlog \/ (last'.terminal /\ txlog' = <<>>)]_vars

C8_Witness ==
    /\ last.op = "exec"
    /\ last.result = "ok"
    /\ last.called
    /\ Len(txlog) = 2
    /\ txlog[2].command = last.command

C12_TasksSurvive ==
    last.op = "exec" => proc.pc # "dead"

\* Whether no state_change has been observed for state_timeout
Stale == now - watchdog.observed >= StateTimeout

C26_AttemptResetsTimestamp ==
    [][(watchdog.attempt # watchdog'.attempt /\ watchdog'.attempt \in {"done", "raised"})
          => watchdog'.last_state_change = now]_vars

\* C27: a recovery attempt that has ended has sent stop_slew, stop_exposure,
\* disconnect and connect, in this order; no attempt ends with a disconnect
\* that no connect followed.
C27_FourCommandsInOrder ==
    [][(watchdog.attempt # watchdog'.attempt /\ watchdog'.attempt \in {"done", "raised"})
          => watchdog'.sent = RecoveryCommands]_vars

\* C28: requests that together reach the size threshold are sent in one
\* combined call, never in a call that stops short of the threshold, and the
\* callbacks are called in the order in which the requests were submitted.
C28_OneCombinedCall ==
    /\ ~batcher.split
    /\ \A i, j \in DOMAIN batcher.called :
          i < j => batcher.called[i] < batcher.called[j]

\* Whether request r has gone to DeviceClient in a combined call
InSent(r) == \E k \in DOMAIN batcher.sent : r \in Range(batcher.sent[k])

\* C29: no request added to a running RequestBatcher waits forever: while the
\* batcher runs, every request added is eventually sent in a combined call.
C29_PartialBatchSent ==
    \A r \in 1..MaxRequests :
        (batcher.running /\ bthreads # <<>> /\ batcher.added >= r)
            ~> (InSent(r) \/ ~batcher.running)

\* C30: requests waiting in the current batch or in the batch queue when the
\* RequestBatcher is stopped are sent in a combined call before the batch
\* processor exits.
C30_FlushedAtStop ==
    (bthreads # <<>> /\ \A i \in DOMAIN bthreads : bthreads[i].pc = "exited") =>
        \A r \in batcher.pending : InSent(r)

\* C31: of two reads of the same cacheable method made through send_request
\* within the TTL window, the later one is a cache hit and does not go to
\* DeviceClient.
C31_SecondReadIsHit ==
    \A i, j \in DOMAIN cache.reads :
        (/\ i < j
         /\ cache.reads[i].method = cache.reads[j].method
         /\ cache.reads[i].method \in CacheableMethods
         /\ cache.reads[j].time - cache.reads[i].time < TTL)
            => (cache.reads[j].hit /\ ~cache.reads[j].sent)

\* C32: a lookup of an allow-listed method adds one to hits when an unexpired
\* entry exists for its key and one to misses otherwise; a lookup or a put of
\* any other method changes neither counter nor the cache; get_stats reports
\* hit_rate = hits / (hits + misses), and 0 when nothing was counted.
C32_CountersAndHitRate ==
    /\ [][cache'.ops # cache.ops =>
            LET l == cache'.last IN
            /\ (l.op = "lookup" /\ l.method \in CacheableMethods /\ l.found) =>
                   (cache'.hits = cache.hits + 1 /\ cache'.misses = cache.misses)
            /\ (l.op = "lookup" /\ l.method \in CacheableMethods /\ ~l.found) =>
                   (cache'.misses = cache.misses + 1 /\ cache'.hits = cache.hits)
            /\ l.op = "lookup" => cache'.response_cache = cache.response_cache
            /\ l.method \notin CacheableMethods =>
                   /\ cache'.hits = cache.hits
                   /\ cache'.misses = cache.misses
                   /\ cache'.response_cache = cache.response_cache]_vars
    /\ [](GetStats(cache).hit_rate =
              IF cache.hits + cache.misses = 0 THEN 0
              ELSE <<cache.hits, cache.hits + cache.misses>>)

\* A lookup found a stored response after a miss: one hit, one miss, as in
\* test_cache_stats.
C32_Witness ==
    /\ cache.last.op = "lookup"
    /\ cache.last.found
    /\ cache.hits = 1
    /\ cache.misses = 1
    /\ GetStats(cache).hit_rate = <<1, 2>>

\* The log entries whose method has an inverse
Undoable == {i \in DOMAIN txlog :
                cmds[txlog[i].command].method \in {"goto_target", "start_exposure", "move_filter"}}

\* C33: rollback sends one inverse command for each logged entry of
\* goto_target, start_exposure and move_filter, newest entry first, built from
\* the previous values of the entry's result, nothing for any other entry,
\* and returns false when an inverse command failed, having gone through the
\* whole log all the same.
C33_RollbackInverses ==
    last.op = "rollback" =>
        /\ {rollback[k].entry : k \in DOMAIN rollback} = Undoable
        /\ \A j, k \in DOMAIN rollback : j < k => rollback[j].entry > rollback[k].entry
        /\ \A k \in DOMAIN rollback :
              LET method == cmds[txlog[rollback[k].entry].command].method
                  result == txlog[rollback[k].entry].result
              IN  CASE method = "goto_target" ->
                          /\ rollback[k].method = "goto_target"
                          /\ rollback[k].params = [ra |-> result.previous_ra,
                                                   dec |-> result.previous_dec]
                    [] method = "start_exposure" -> rollback[k].method = "stop_exposure"
                    [] method = "move_filter" ->
                          /\ rollback[k].method = "move_filter"
                          /\ rollback[k].params = [position |-> result.previous_position]
                    [] OTHER -> FALSE
        /\ last.rolled_back = IF last.raised THEN "failed" ELSE "ok"

\* C34: when the CommandQueue rolls back, every logged goto_target or
\* move_filter command is undone with the value _get_relevant_state read just
\* before it was sent: goto_target to that ra/dec, move_filter to that
\* position.
C34_UndoneWithCapturedValue ==
    [][(proc.pc = "exec" /\ last'.terminal) =>
          \A i \in DOMAIN txlog :
             LET method == cmds[txlog[i].command].method
                 previous == txlog[i].result.previous_state
             IN  /\ method = "goto_target" =>
                       \E k \in DOMAIN rollback' :
                          /\ rollback'[k].entry = i
                          /\ rollback'[k].method = "goto_target"
                          /\ rollback'[k].params = [ra |-> previous.previous_ra,
                                                    dec |-> previous.previous_dec]
                 /\ method = "move_filter" =>
                       \E k \in DOMAIN rollback' :
                          /\ rollback'[k].entry = i
                          /\ rollback'[k].method = "move_filter"
                          /\ rollback'[k].params =
                                 [position |-> previous.previous_position]]_vars

\* C35: a command whose execution DeviceClient answered with a successful
\* result is not sent again and is logged once, whatever its callback does:
\* the step neither re-enqueues it nor treats it as failed.
C35_SuccessIsFinal ==
    /\ [][(proc.pc = "exec" /\ last'.op = "exec" /\ last'.result = "ok") =>
             /\ last'.retried = 0
             /\ ~last'.terminal
             /\ \A i \in DOMAIN heap' : heap'[i][2] # proc.command]_vars
    /\ [](\A c \in DOMAIN cmds :
             Cardinality({i \in DOMAIN txlog : txlog[i].command = c}) <= 1)

\* C36: add_command returns normally and leaves the command pending whatever
\* the priority, also when another command with the same priority is pending,
\* and so does the re-enqueue of a retry: no enqueue raises and the command
\* processor is not ended by one.
C36_EnqueueNeverFails ==
    /\ last.op = "add" =>
          (/\ ~last.raised
           /\ \E i \in DOMAIN heap : heap[i] = <<last.priority, last.command>>)
    /\ (last.op = "exec" /\ last.retried > 0) => ~last.raised
    /\ proc.pc # "dead"

\* ------------------------------------ the Watchdog beside a healthy monitor
\* An exposure longer than state_timeout
LongExposure == 90

\* The clock stops here where the idle device is studied
MaxIdleTime == 67

\* A poll step of a cycle in which every DeviceClient read succeeds
PollOk ==
    /\ Poll(FALSE)
    /\ mon'.failed = "no"
    /\ mon'.pc # "error"

\* A second passes while the poll thread is in the sleep that ends its cycle,
\* the event thread waits on the empty queue and no Watchdog thread
\* oversleeps: the steps of a cycle take far less than a second.  The
\* collaborator has made its calls by then.
IdleElapse ==
    /\ now < MaxIdleTime
    /\ running /\ wthreads # <<>>
    /\ calls = MaxCalls
    /\ mon.pc = "loop"
    /\ event_queue = <<>> /\ evt.pc \in {"loop", "get"}
    /\ caller.pc = "idle"
    /\ Elapse

\* The monitor and the Watchdog started once, a device whose reads all
\* succeed, and a collaborator that starts one long exposure.
IdleNext ==
    \/ MonitorStart
    \/ wthreads = <<>> /\ WatchdogStart
    \/ PollOk
    \/ Events
    \/ \E g \in Gains : StartExposure(LongExposure, g)
    \/ CallerWrite
    \/ WatchdogThreads
    \/ IdleElapse

SpecIdle == Init /\ [][IdleNext]_vars

\* C37: while every read of the poll loop succeeds and the device is connected
\* without an error, the Watchdog sends no stop_slew, stop_exposure or
\* disconnect; in particular not during an exposure longer than state_timeout.
C37_IdleNotRecovered ==
    (running /\ mon.failed = "no" /\ state.connected /\ state.error = None) =>
        /\ Range(watchdog.sent) \cap {"stop_slew", "stop_exposure", "disconnect"} = {}
        /\ (state.exposing /\ state.exposure_time > StateTimeout) =>
               watchdog.attempt = "none"

\* ------------------------------------------- an exposure that is aborted
\* The monitor after start_exposure(d, g) returned True on the constructed
\* object at time 0: the fields are set and their events wait in the queue.
ExposingInit ==
    /\ now = 0
    /\ \E d \in Durations, g \in Gains :
          MonitorInitFrom(UpdateState([state |-> DeviceStateInit, queue |-> <<>>],
                                      <<<<"exposing", TRUE>>, <<"exposure_time", d>>,
                                        <<"exposure_start", 0>>, <<"gain", g>>>>),
                          [started |-> TRUE, completes |-> 0])
    /\ QueueInit

\* The poll loop beside a collaborator that aborts the exposure or starts
\* another one.
AbortNext ==
    \/ MonitorStart
    \/ Poll(TRUE)
    \/ Drain
    \/ \E d \in Durations, g \in Gains : StartExposure(d, g)
    \/ AbortExposure
    \/ CallerWrite
    \/ Tick

SpecAbort == ExposingInit /\ [][AbortNext]_vars

\* C38: the poll loop goes on to publish exposure_complete only when its own
\* _update_state changed exposing from true to false; an exposure that
\* AbortExposure ended produces no exposure_complete.
C38_CompleteOnlyIfPollEnded ==
    [][(mon.pc = "complete" /\ mon'.pc = "publish") =>
           (state.exposing /\ ~state'.exposing)]_vars

\* ------------------------------------------- HealthChecker, MonitoringSystem
\* self.max_history of HealthChecker
MaxHistory == 100

Components == <<"api", "device", "performance", "system">>

\* The status strings as Python compares them: by their code points
StatusChars ==
    [healthy   |-> <<104, 101, 97, 108, 116, 104, 121>>,
     degraded  |-> <<100, 101, 103, 114, 97, 100, 101, 100>>,
     unhealthy |-> <<117, 110, 104, 101, 97, 108, 116, 104, 121>>]

RECURSIVE SeqLess(_, _)
\* a < b for two sequences of code points
SeqLess(a, b) ==
    IF b = <<>> THEN FALSE
    ELSE IF a = <<>> THEN TRUE
    ELSE IF Head(a) # Head(b) THEN Head(a) < Head(b)
    ELSE SeqLess(Tail(a), Tail(b))

\* a < b for two status strings
StrLess(a, b) == SeqLess(StatusChars[a], StatusChars[b])

RECURSIVE MinFrom(_, _)
\* min() over the strings of `seq` with `best` the smallest so far: the first
\* of the smallest is kept
MinFrom(best, seq) ==
    IF seq = <<>> THEN best
    ELSE MinFrom(IF StrLess(Head(seq), best) THEN Head(seq) ELSE best, Tail(seq))

\* min(s.status for s in health.values())
MinStatus(checks) ==
    MinFrom(checks[Components[1]].status,
            [i \in 1..(Len(Components) - 1) |-> checks[Components[i + 1]].status])

\* _check_api_health(): `outcome` is what send_command did
CheckApiHealth(outcome) ==
    [status |-> CASE outcome = "raise" -> "unhealthy"
                  [] outcome = "slow" -> "degraded"
                  [] OTHER -> "healthy",
     details |-> outcome]

\* _check_device_health(): from the DeviceState of the monitor
CheckDeviceHealth(connected, error) ==
    [status |-> IF ~connected THEN "unhealthy"
                ELSE IF error # None THEN "degraded" ELSE "healthy",
     details |-> <<connected, error>>]

\* _check_performance_health(): hit_rate < 0.5, with hit_rate the pair
\* <<hits, total>> or 0
CheckPerformanceHealth(stats) ==
    LET rate == stats.hit_rate
        low == IF stats.hits + stats.misses = 0 THEN TRUE
               ELSE 2 * rate[1] < rate[2]
    IN  [status |-> IF low THEN "degraded" ELSE "healthy",
         details |-> <<stats.hits, stats.misses>>]

\* _check_system_health(): the three percentages of psutil
CheckSystemHealth(cpu, memory, disk) ==
    [status |-> IF cpu > 90 \/ memory > 90 \/ disk > 90 THEN "degraded" ELSE "healthy",
     details |-> <<cpu, memory, disk>>]

ApiOutcomes == {"fast", "slow", "raise"}

Errors == {None, "err"}

Counts == {0, 1}

Percents == {50, 95}

\* get_health_report(): check_health() runs the four checks and appends them
\* to health_history, of which the oldest entries beyond max_history are
\* dropped; overall_status is the min of the four status strings.
\* `history` is the length of health_history.
GetHealthReport ==
    /\ health.history < MaxReports * Len(Components)
    /\ \E outcome \in ApiOutcomes, connected \in BOOLEAN, error \in Errors,
          hits \in Counts, misses \in Counts,
          cpu \in Percents, memory \in Percents, disk \in Percents :
         LET checks == [api |-> CheckApiHealth(outcome),
                        device |-> CheckDeviceHealth(connected, error),
                        performance |->
                            CheckPerformanceHealth(GetStats([hits |-> hits,
                                                             misses |-> misses])),
                        system |-> CheckSystemHealth(cpu, memory, disk)]
             grown == health.history + Len(Components)
         IN  health' = [checks |-> checks,
                        overall_status |-> MinStatus(checks),
                        history |-> IF grown > MaxHistory THEN MaxHistory ELSE grown]
    /\ UNCHANGED <<queueVars, coreVars, subVars, connVars, batchVars, watchdog, wthreads,
                   reader, cache, wheel, now>>

SpecHealth == Init /\ [][GetHealthReport]_vars

\* The worst of the four component statuses
Worst(checks) ==
    LET statuses == {checks[Components[i]].status : i \in DOMAIN Components} IN
    IF "unhealthy" \in statuses THEN "unhealthy"
    ELSE IF "degraded" \in statuses THEN "degraded"
    ELSE "healthy"

\* C39: the overall_status of a health report is the worst of its four
\* component statuses: unhealthy if any is unhealthy, otherwise degraded if
\* any is degraded, otherwise healthy.
C39_OverallIsWorst ==
    health.overall_status # None => health.overall_status = Worst(health.checks)

\* -------------------------------------------------------- SeestarFilterWheel
\* self.filter_count
FilterCount == 2

\* The FILTER_SLOT_VALUE numbers a client sends
Slots == 0..3

\* ISNewNumber(dev, "FILTER_SLOT", values, names) with the 1-based `slot`: an
\* invalid position and a wheel that is moving (state.filter_moving, read
\* without the lock) are refused; otherwise monitor.move_filter(target) is
\* called, which returns False when DeviceClient refuses.
ISNewNumber(slot) ==
    /\ caller.pc = "idle"
    /\ wheel.last # "calling"
    /\ LET target_filter == slot - 1 IN
       IF target_filter < 0 \/ target_filter >= FilterCount
       THEN /\ wheel' = [wheel EXCEPT !.last = "invalid"]
            /\ UNCHANGED <<calls, state_lock, caller>>
       ELSE IF state.filter_moving
       THEN /\ wheel' = [wheel EXCEPT !.last = "already moving"]
            /\ UNCHANGED <<calls, state_lock, caller>>
       ELSE /\ calls < MaxCalls
            /\ calls' = calls + 1
            /\ \/ /\ CallerEnter(<<<<"filter_position", target_filter>>,
                                   <<"filter_moving", TRUE>>>>)
                  /\ wheel' = [wheel EXCEPT !.last = "calling"]
               \/ /\ CallerFailed
                  /\ wheel' = [wheel EXCEPT !.last = "failed"]
    /\ UNCHANGED <<queueVars, subVars, connVars, batchVars, watchdog, wthreads, reader,
                   cache, health, now, state, event_queue, running, mon, evt, cycles,
                   exposure>>

\* move_filter returned True: FILTER_SLOT becomes busy and ISNewNumber
\* returns True.
ISNewNumberReturn ==
    /\ caller.pc = "idle"
    /\ wheel.last = "calling"
    /\ wheel' = [slot |-> "BUSY", last |-> "moved"]
    /\ UNCHANGED <<queueVars, coreVars, subVars, connVars, batchVars, watchdog, wthreads,
                   reader, cache, health, now>>

\* The filter wheel adapter beside the running monitor and the camera's
\* start_exposure: clients keep sending FILTER_SLOT requests, and every
\* thread that can take a step eventually takes one.
FilterNext ==
    \/ MonitorStart
    \/ Poll(FALSE)
    \/ Drain
    \/ \E slot \in Slots : ISNewNumber(slot)
    \/ ISNewNumberReturn
    \/ \E d \in Durations, g \in Gains : StartExposure(d, g)
    \/ CallerWrite
    \/ Tick

LiveFilter ==
    /\ Init
    /\ [][FilterNext]_vars
    /\ WF_vars(MonitorStart)
    /\ WF_vars(Poll(FALSE))
    /\ WF_vars(Drain)
    /\ WF_vars(ISNewNumberReturn)
    /\ WF_vars(CallerWrite)
    /\ WF_vars(Tick)

\* C40: while the poll loop runs, a filter wheel that is moving eventually
\* stops moving, so that a later move request is accepted again.
C40_FilterStopsMoving ==
    (running /\ state.filter_moving) ~> ~state.filter_moving

=====================================================================
